---- MODULE Spec2Model ----
(***************************************************************************)
(* Protocol-Calendar: the schedule reconciliation logic of                 *)
(* backend/calendar_server.py (the /api/process handler), the backend      *)
(* dispatch of backend/calendar_platform.py and the two calendar backends  *)
(* backend/calendar_macos.py (EventKit) and backend/calendar_ics.py        *)
(* (.ics export files).                                                    *)
(*                                                                         *)
(* Text is a sequence of tokens.  Identifiers, digits and punctuation are  *)
(* one token per character; the literals the regular expressions of the    *)
(* code look for ("Day", "[EXPERIMENT_ID:", "BEGIN:VEVENT", ...) and the   *)
(* words of a task are one token each.                                     *)
(* A datetime is a record [day, sec]: a day ordinal and the seconds since  *)
(* midnight.                                                               *)
(***************************************************************************)
EXTENDS Integers, Sequences, FiniteSets, TLC

VARIABLES
    platform,          \* platform.system() and whether EventKit can be imported
    now,               \* datetime.now()
    calendar_backend,  \* calendar_platform._calendar_backend: "none", "macos" or "ics"
    calendar,          \* the calendar "Lab Protocols" of the event store (native backend)
    calendar_exports,  \* the directory calendar_exports, in listing order (portable backend)
    last,              \* the request in the handler: its form, what the environment did, the
                       \* handler's locals (result, matching_ids, entries) and its backend calls
    previous,          \* the form of the request before, when it was an update that succeeded
                       \* and nothing failed in the environment
    requests,          \* the number of requests handled
    infer,             \* Day-0 inference taken alone: its input events, the backend applied, the result
    trial              \* a function of the backends or of the parser taken alone: its inputs,
                       \* whether it has run, its result

----------------------------------------------------------------------------
(* Bounds of the model *)

\* longest event sequence handed to Day-0 inference taken alone
MaxEvents == 3

\* requests handled in one run
MaxRequests == 2

\* seconds the clock advances in one run
MaxTicks == 1

\* dated entries in the export file that is written and read back
MaxEntries == 2

\* calls of the platform functions taken alone
MaxCalls == 3

\* sentences in the text handed to the day-entry extractor taken alone
MaxSentences == 3

\* storage units (export files, or add calls on the native calendar) in the
\* store that find is taken alone on
MaxUnits == 3

----------------------------------------------------------------------------
(* Text *)

DigitChars == <<"0", "1", "2", "3", "4", "5", "6", "7", "8", "9">>

IsDigit(c) == \E d \in 1..10 : DigitChars[d] = c

DigitVal(c) == (CHOOSE d \in 1..10 : DigitChars[d] = c) - 1

\* Python \s
IsSpace(c) == c \in {" ", "\n", "\t"}

\* str(n), f"{n}"
RECURSIVE str(_)
str(n) == IF n < 10 THEN <<DigitChars[n + 1]>>
          ELSE str(n \div 10) \o <<DigitChars[(n % 10) + 1]>>

\* int(digits)
RECURSIVE int(_)
int(digits) ==
    IF Len(digits) = 0 THEN 0
    ELSE 10 * int(SubSeq(digits, 1, Len(digits) - 1)) + DigitVal(digits[Len(digits)])

\* the index of the first token at or after i that fails test-by-set membership
RECURSIVE SkipWhile(_, _, _)
SkipWhile(text, i, kind) ==
    IF i > Len(text) THEN i
    ELSE IF (kind = "space" /\ IsSpace(text[i])) \/ (kind = "digit" /\ IsDigit(text[i]))
         THEN SkipWhile(text, i + 1, kind)
         ELSE i

\* re.compile(r'Day\s+(\d+)', re.IGNORECASE): does it match at position i
DayMatchAt(text, i) ==
    /\ text[i] \in {"Day", "day", "DAY"}
    /\ LET s == SkipWhile(text, i + 1, "space")
           d == SkipWhile(text, s, "digit")
       IN s > i + 1 /\ d > s

\* day_pattern.search(text): the number of the first match, -1 when there is none
day_pattern_search(text) ==
    LET hits == {i \in 1..Len(text) : DayMatchAt(text, i)}
    IN IF hits = {} THEN -1
       ELSE LET i == CHOOSE h \in hits : \A g \in hits : h <= g
                s == SkipWhile(text, i + 1, "space")
                d == SkipWhile(text, s, "digit")
            IN int(SubSeq(text, s, d - 1))

\* the smallest member of a non-empty set of positions
Min(S) == CHOOSE x \in S : \A y \in S : x <= y

\* the characters of the identifiers, upper case to lower case
LowerChar(c) ==
    CASE c = "E" -> "e"
      [] c = "N" -> "n"
      [] c = "C" -> "c"
      [] c = "S" -> "s"
      [] c = "I" -> "i"
      [] OTHER -> c

\* str.lower()
lower(text) == [i \in 1..Len(text) |-> LowerChar(text[i])]

\* Python "a in b" on strings
IsSubstring(a, b) ==
    \E i \in 0..(Len(b) - Len(a)) : SubSeq(b, i + 1, i + Len(a)) = a

\* str.strip()
RECURSIVE strip(_)
strip(text) ==
    IF Len(text) = 0 THEN text
    ELSE IF IsSpace(text[1]) THEN strip(Tail(text))
    ELSE IF IsSpace(text[Len(text)]) THEN strip(SubSeq(text, 1, Len(text) - 1))
    ELSE text

\* the positions after i that hold token c
PositionsAfter(text, i, c) == {j \in (i + 1)..Len(text) : text[j] = c}

\* re.compile(r'\[EXPERIMENT_ID:([^\]]+)\]', re.IGNORECASE): does it match at i
IdMatchAt(text, i) ==
    /\ text[i] \in {"[EXPERIMENT_ID:", "[experiment_id:"}
    /\ PositionsAfter(text, i, "]") # {}
    /\ Min(PositionsAfter(text, i, "]")) > i + 1

\* id_pattern.search(text): group(1) of the first match, <<>> when there is none
id_pattern_search(text) ==
    LET hits == {i \in 1..Len(text) : IdMatchAt(text, i)}
    IN IF hits = {} THEN <<>>
       ELSE LET i == Min(hits)
            IN SubSeq(text, i + 1, Min(PositionsAfter(text, i, "]")) - 1)

\* re.compile(r'ID:\s*([^,]+)', re.IGNORECASE).search(title): group(1).strip() of
\* the first match, <<>> when there is none
title_pattern_search(text) ==
    LET hits == {i \in 1..Len(text) : text[i] \in {"ID:", "id:"} /\ i < Len(text)
                                      /\ text[i + 1] # ","}
    IN IF hits = {} THEN <<>>
       ELSE LET i == Min(hits)
                commas == PositionsAfter(text, i, ",")
                end == IF commas = {} THEN Len(text) ELSE Min(commas) - 1
            IN strip(SubSeq(text, i + 1, end))

----------------------------------------------------------------------------
(* datetime *)

\* Python None where a datetime is expected
NoDate == [day |-> -1, sec |-> 0]

\* Python None where a day number is expected
NoDay == -1

\* dt.replace(hour=0, minute=0, second=0, microsecond=0)
Midnight(dt) == [dt EXCEPT !.sec = 0]

\* dt + timedelta(days=n), dt - timedelta(days=n)
PlusDays(dt, n) == [dt EXCEPT !.day = dt.day + n]

MinusDays(dt, n) == [dt EXCEPT !.day = dt.day - n]

----------------------------------------------------------------------------
(* Event tagging convention of both backends *)

ENC1 == <<"E", "N", "C", "1">>

\* f"ID: {exp_id}, Day {day_num}: {task}"
TitleText(exp_id, day_num, task) ==
    <<"ID:", " ">> \o exp_id \o <<",", " ", "Day", " ">> \o str(day_num) \o <<":", " ">> \o task

\* f"[EXPERIMENT_ID:{exp_id}] {task}"
NotesText(exp_id, task) ==
    <<"[EXPERIMENT_ID:">> \o exp_id \o <<"]", " ">> \o task

\* the EKEvent that add_to_calendar builds for one dated entry
NewEKEvent(exp_id, day_num, task, calendar_date) ==
    [title |-> TitleText(exp_id, day_num, task),
     notes |-> NotesText(exp_id, task),
     start |-> calendar_date]

----------------------------------------------------------------------------
(* calendar_parser.py: the day-entry extractor and the date assigner *)

\* re.sub(r'\s+', ' ', task)
RECURSIVE CollapseSpaces(_)
CollapseSpaces(text) ==
    IF Len(text) = 0 THEN text
    ELSE IF IsSpace(text[1])
         THEN <<" ">> \o CollapseSpaces(SubSeq(text, SkipWhile(text, 1, "space"), Len(text)))
         ELSE <<text[1]>> \o CollapseSpaces(Tail(text))

\* str.rstrip('.')
RECURSIVE rstrip_dot(_)
rstrip_dot(text) ==
    IF Len(text) > 0 /\ text[Len(text)] = "."
    THEN rstrip_dot(SubSeq(text, 1, Len(text) - 1))
    ELSE text

\* r'Day\s*(\d+)(?:-\d+)?:\s*([^.]*?\.)' with re.IGNORECASE | re.DOTALL tried at
\* position i, where (\d+) spans s..d-1 and the colon is looked for at c: whether
\* it matches, group(1) as a number, group(2), the last position
DayEntryGroups(text, i, s, d, c) ==
    LET dots == PositionsAfter(text, c, ".")
    IN IF /\ text[i] \in {"Day", "day", "DAY"}
          /\ d > s
          /\ c <= Len(text) /\ text[c] = ":"
          /\ dots # {}
       THEN [ok |-> TRUE, day |-> int(SubSeq(text, s, d - 1)),
             task |-> SubSeq(text, c + 1, Min(dots)), end |-> Min(dots)]
       ELSE [ok |-> FALSE, day |-> 0, task |-> <<>>, end |-> i]

\* (?:-\d+)? after the digits that end before d: the position after it
DayEntryRange(text, d) ==
    IF d <= Len(text) /\ text[d] = "-" /\ SkipWhile(text, d + 1, "digit") > d + 1
    THEN SkipWhile(text, d + 1, "digit")
    ELSE d

\* \s*(\d+) from position s on
DayEntryNumber(text, i, s) ==
    DayEntryGroups(text, i, s, SkipWhile(text, s, "digit"),
                   DayEntryRange(text, SkipWhile(text, s, "digit")))

DayEntryMatchAt(text, i) == DayEntryNumber(text, i, SkipWhile(text, i + 1, "space"))

RECURSIVE day_entry_matches(_, _)

\* the body of the loop over re.finditer(pattern, text) for match m, and the
\* matches after it
day_entry_append(text, m) ==
    LET task == CollapseSpaces(strip(rstrip_dot(strip(m.task))))
    IN (IF task # <<>> THEN <<[day |-> m.day, task |-> task]>> ELSE <<>>)
       \o day_entry_matches(text, m.end + 1)

\* the loop over re.finditer(pattern, text): the entries in document order
day_entry_matches(text, from) ==
    LET hits == {i \in from..Len(text) : DayEntryMatchAt(text, i).ok}
    IN IF hits = {} THEN <<>>
       ELSE day_entry_append(text, DayEntryMatchAt(text, Min(hits)))

\* InsertByDay with the entry put before the entries of its own day: a sort
\* that is not stable
RECURSIVE InsertByDay_BeforeEqual(_, _)
InsertByDay_BeforeEqual(sorted, entry) ==
    IF Len(sorted) = 0 THEN <<entry>>
    ELSE IF sorted[Len(sorted)].day < entry.day THEN Append(sorted, entry)
    ELSE Append(InsertByDay_BeforeEqual(SubSeq(sorted, 1, Len(sorted) - 1), entry),
                sorted[Len(sorted)])

\* one insertion of list.sort(key=lambda x: x[0]): after every entry of a day
\* not greater
RECURSIVE InsertByDay(_, _)
InsertByDay(sorted, entry) ==
    IF Len(sorted) = 0 THEN <<entry>>
    ELSE IF sorted[Len(sorted)].day <= entry.day THEN Append(sorted, entry)
    ELSE Append(InsertByDay(SubSeq(sorted, 1, Len(sorted) - 1), entry), sorted[Len(sorted)])

\* entries.sort(key=lambda x: x[0]): a stable sort
RECURSIVE SortByDay(_)
SortByDay(entries) ==
    IF Len(entries) = 0 THEN <<>>
    ELSE InsertByDay(SortByDay(SubSeq(entries, 1, Len(entries) - 1)), entries[Len(entries)])

parse_day_entries(text) == SortByDay(day_entry_matches(text, 1))

\* assign_dates with "calendar_date = day0_date": the day number is not added
assign_dates_NoOffset(entries, day0_date, exp_id) ==
    [i \in 1..Len(entries) |->
        [day_num |-> entries[i].day,
         task |-> entries[i].task,
         calendar_date |-> day0_date,
         exp_id |-> exp_id]]

assign_dates(entries, day0_date, exp_id) ==
    [i \in 1..Len(entries) |->
        [day_num |-> entries[i].day,
         task |-> entries[i].task,
         calendar_date |-> PlusDays(day0_date, entries[i].day),
         exp_id |-> exp_id]]

----------------------------------------------------------------------------
(* Day-0 inference *)

\* ics_day0_loop without the break at the first Day 0 event: the last one wins
RECURSIVE ics_day0_loop_NoBreak(_, _, _, _)
ics_day0_loop_NoBreak(events, i, earliest_day, earliest_date) ==
    IF i > Len(events)
    THEN [day0_event |-> NoDate, earliest_day |-> earliest_day, earliest_date |-> earliest_date]
    ELSE LET rest == ics_day0_loop_NoBreak(events, i + 1, earliest_day, earliest_date)
         IN IF events[i].day = 0 /\ rest.day0_event = NoDate
            THEN [rest EXCEPT !.day0_event = events[i].date]
            ELSE IF events[i].day # 0 /\ rest.day0_event = NoDate
                      /\ (rest.earliest_day = NoDay \/ events[i].day <= rest.earliest_day)
                 THEN [rest EXCEPT !.earliest_day = events[i].day,
                                   !.earliest_date = events[i].date]
                 ELSE rest

\* ics_day0_loop with "day_num <= earliest_day": the last event wins a tie
RECURSIVE ics_day0_loop_LastOnTie(_, _, _, _)
ics_day0_loop_LastOnTie(events, i, earliest_day, earliest_date) ==
    IF i > Len(events)
    THEN [day0_event |-> NoDate, earliest_day |-> earliest_day, earliest_date |-> earliest_date]
    ELSE LET day_num == events[i].day
             event_date == events[i].date
         IN IF day_num = 0
            THEN [day0_event |-> event_date, earliest_day |-> earliest_day,
                  earliest_date |-> earliest_date]
            ELSE IF earliest_day = NoDay \/ day_num <= earliest_day
                 THEN ics_day0_loop_LastOnTie(events, i + 1, day_num, event_date)
                 ELSE ics_day0_loop_LastOnTie(events, i + 1, earliest_day, earliest_date)

\* the for loop of extract_day0_from_ics_events
RECURSIVE ics_day0_loop(_, _, _, _)
ics_day0_loop(events, i, earliest_day, earliest_date) ==
    IF i > Len(events)
    THEN [day0_event |-> NoDate, earliest_day |-> earliest_day, earliest_date |-> earliest_date]
    ELSE LET day_num == events[i].day
             event_date == events[i].date
         IN IF day_num = 0
            THEN [day0_event |-> event_date, earliest_day |-> earliest_day,
                  earliest_date |-> earliest_date]
            ELSE IF earliest_day = NoDay \/ day_num < earliest_day
                 THEN ics_day0_loop(events, i + 1, day_num, event_date)
                 ELSE ics_day0_loop(events, i + 1, earliest_day, earliest_date)

\* extract_day0_from_ics_events without the subtraction of the earliest day number
extract_day0_from_ics_events_NoSubtract(events) ==
    LET r == ics_day0_loop(events, 1, NoDay, NoDate)
    IN IF r.day0_event # NoDate THEN Midnight(r.day0_event)
       ELSE IF r.earliest_date # NoDate /\ r.earliest_day # NoDay
            THEN Midnight(r.earliest_date)
            ELSE NoDate

extract_day0_from_ics_events(events) ==
    LET r == ics_day0_loop(events, 1, NoDay, NoDate)
    IN IF r.day0_event # NoDate THEN Midnight(r.day0_event)
       ELSE IF r.earliest_date # NoDate /\ r.earliest_day # NoDay
            THEN Midnight(MinusDays(r.earliest_date, r.earliest_day))
            ELSE NoDate

\* the loop without "if start_date:": an event without a start date is not skipped
RECURSIVE macos_day0_loop_NoStartCheck(_, _, _, _)
macos_day0_loop_NoStartCheck(events, i, earliest_day, earliest_date) ==
    IF i > Len(events)
    THEN [day0_event |-> NoDate, earliest_day |-> earliest_day, earliest_date |-> earliest_date]
    ELSE LET title == events[i].title
             day_num == day_pattern_search(title)
             start_date == events[i].start
         IN IF title = <<>> \/ day_num = -1
            THEN macos_day0_loop_NoStartCheck(events, i + 1, earliest_day, earliest_date)
            ELSE IF day_num = 0
                 THEN [day0_event |-> start_date, earliest_day |-> earliest_day,
                       earliest_date |-> earliest_date]
                 ELSE IF earliest_day = NoDay \/ day_num < earliest_day
                      THEN macos_day0_loop_NoStartCheck(events, i + 1, day_num, start_date)
                      ELSE macos_day0_loop_NoStartCheck(events, i + 1, earliest_day, earliest_date)

\* the for loop of calendar_macos.extract_day0_from_events
RECURSIVE macos_day0_loop(_, _, _, _)
macos_day0_loop(events, i, earliest_day, earliest_date) ==
    IF i > Len(events)
    THEN [day0_event |-> NoDate, earliest_day |-> earliest_day, earliest_date |-> earliest_date]
    ELSE LET title == events[i].title
             day_num == day_pattern_search(title)
             start_date == events[i].start
         IN IF title = <<>> \/ day_num = -1 \/ start_date = NoDate
            THEN macos_day0_loop(events, i + 1, earliest_day, earliest_date)
            ELSE IF day_num = 0
                 THEN [day0_event |-> start_date, earliest_day |-> earliest_day,
                       earliest_date |-> earliest_date]
                 ELSE IF earliest_day = NoDay \/ day_num < earliest_day
                      THEN macos_day0_loop(events, i + 1, day_num, start_date)
                      ELSE macos_day0_loop(events, i + 1, earliest_day, earliest_date)

\* calendar_macos.extract_day0_from_events
macos_extract_day0(events) ==
    LET r == macos_day0_loop(events, 1, NoDay, NoDate)
    IN IF r.day0_event # NoDate THEN Midnight(r.day0_event)
       ELSE IF r.earliest_date # NoDate /\ r.earliest_day # NoDay
            THEN Midnight(MinusDays(r.earliest_date, r.earliest_day))
            ELSE NoDate

----------------------------------------------------------------------------
(* Python dict of experiment groups, in insertion order *)

\* exp_id in matching_ids
HasKey(matching_ids, exp_id) == \E i \in 1..Len(matching_ids) : matching_ids[i].id = exp_id

KeyIndex(matching_ids, exp_id) == CHOOSE i \in 1..Len(matching_ids) : matching_ids[i].id = exp_id

\* the key is made when it is new and no event is put under it
ExtendGroup_NoAppend(matching_ids, exp_id, events) ==
    IF HasKey(matching_ids, exp_id) THEN matching_ids
    ELSE Append(matching_ids, [id |-> exp_id, day0_date |-> NoDate, events |-> <<>>])

\* matching_ids[exp_id] = {'day0_date': None, 'events': []} when the key is new,
\* then matching_ids[exp_id]['events'].extend(events)
ExtendGroup(matching_ids, exp_id, events) ==
    IF HasKey(matching_ids, exp_id)
    THEN [matching_ids EXCEPT ![KeyIndex(matching_ids, exp_id)].events = @ \o events]
    ELSE Append(matching_ids, [id |-> exp_id, day0_date |-> NoDate, events |-> events])

----------------------------------------------------------------------------
(* calendar_ics.py: the portable-file backend *)

\* zero padding of strftime
RECURSIVE Pad(_, _)
Pad(digits, width) == IF Len(digits) >= width THEN digits ELSE Pad(<<"0">> \o digits, width)

\* the width of a date in an export file
DateWidth == 8

\* the width of the time of day in a file name
TimeWidth == 6

\* calendar_date.strftime("%Y%m%d"): the time of day is dropped
strftime_date(dt) == Pad(str(dt.day), DateWidth)

\* datetime.strptime(date_str, "%Y%m%d")
strptime_date(date_str) == [day |-> int(date_str), sec |-> 0]

\* datetime.now().strftime("%Y%m%d_%H%M%S")
strftime_timestamp(dt) == strftime_date(dt) \o <<"_">> \o Pad(str(dt.sec), TimeWidth)

\* task.replace("\\", "\\\\").replace(",", "\\,").replace(";", "\\;").replace("\n", "\\n")
RECURSIVE escape_task(_)
escape_task(task) ==
    IF Len(task) = 0 THEN <<>>
    ELSE (CASE task[1] = "\\" -> <<"\\", "\\">>
            [] task[1] = "," -> <<"\\", ",">>
            [] task[1] = ";" -> <<"\\", ";">>
            [] task[1] = "\n" -> <<"\\", "n">>
            [] OTHER -> <<task[1]>>) \o escape_task(Tail(task))

\* the VEVENT block generate_ics_file writes for one dated entry
ics_event_block(entry, exp_id) ==
    LET date_str == strftime_date(entry.calendar_date)
        task_escaped == escape_task(entry.task)
    IN <<"BEGIN:VEVENT", "\n">>
       \o <<"UID:">> \o exp_id \o <<"-", "day">> \o str(entry.day_num) \o <<"-">> \o date_str
          \o <<"@lab-calendar", "\n">>
       \o <<"DTSTART;VALUE=DATE:">> \o date_str \o <<"\n">>
       \o <<"DTEND;VALUE=DATE:">> \o date_str \o <<"\n">>
       \o <<"SUMMARY:", "ID:", " ">> \o exp_id \o <<",", " ", "Day", " ">> \o str(entry.day_num)
          \o <<":", " ">> \o task_escaped \o <<"\n">>
       \o <<"DESCRIPTION:", "[EXPERIMENT_ID:">> \o exp_id \o <<"]", " ">> \o task_escaped
          \o <<"\n">>
       \o <<"CATEGORIES:Lab Protocol", "\n", "STATUS:CONFIRMED", "\n", "SEQUENCE:0", "\n">>
       \o <<"END:VEVENT", "\n">>

RECURSIVE ics_event_blocks(_, _)
ics_event_blocks(dated_entries, exp_id) ==
    IF Len(dated_entries) = 0 THEN <<>>
    ELSE ics_event_block(dated_entries[1], exp_id) \o ics_event_blocks(Tail(dated_entries), exp_id)

\* ics_content of generate_ics_file
ics_content(dated_entries, exp_id) ==
    <<"BEGIN:VCALENDAR", "\n", "VERSION:2.0", "\n",
      "PRODID:-//Lab Protocol Calendar//Lab Calendar Tool//EN", "\n",
      "CALSCALE:GREGORIAN", "\n", "METHOD:PUBLISH", "\n">>
    \o ics_event_blocks(dated_entries, exp_id)
    \o <<"END:VCALENDAR", "\n">>

\* f"{exp_id}_{timestamp}.ics"
ics_filename(exp_id, clock) == exp_id \o <<"_">> \o strftime_timestamp(clock) \o <<".ics">>

\* open(filepath, 'w') and write: a file of that name is replaced where it
\* stands, a new file enters the directory listing first or last
write_file(dir, filename, content, place) ==
    IF \E i \in 1..Len(dir) : dir[i].name = filename
    THEN [i \in 1..Len(dir) |->
             IF dir[i].name = filename THEN [name |-> filename, content |-> content] ELSE dir[i]]
    ELSE IF place = "first"
         THEN <<[name |-> filename, content |-> content]>> \o dir
         ELSE Append(dir, [name |-> filename, content |-> content])

\* generate_ics_file: the directory afterwards, and whether an OSError was raised
generate_ics_file(dir, dated_entries, exp_id, clock, place, write_fails) ==
    IF write_fails
    THEN [dir |-> dir, raised |-> TRUE]
    ELSE [dir |-> write_file(dir, ics_filename(exp_id, clock),
                             ics_content(dated_entries, exp_id), place),
          raised |-> FALSE]

\* re.compile(r'DTSTART;VALUE=DATE:(\d{8})').search(event_text): group(1), <<>> when
\* there is no match
date_pattern_search(text) ==
    LET hits == {i \in 1..Len(text) :
                    /\ text[i] = "DTSTART;VALUE=DATE:"
                    /\ i + DateWidth <= Len(text)
                    /\ \A j \in (i + 1)..(i + DateWidth) : IsDigit(text[j])}
    IN IF hits = {} THEN <<>>
       ELSE SubSeq(text, Min(hits) + 1, Min(hits) + DateWidth)

\* the body of the loop over event_pattern.finditer(content) for one event text
read_ics_event(matching_ids, event_text) ==
    LET id_group == id_pattern_search(event_text)
        day_num == day_pattern_search(event_text)
        date_str == date_pattern_search(event_text)
    IN IF id_group = <<>> \/ day_num = -1 \/ date_str = <<>>
       THEN matching_ids
       ELSE ExtendGroup(matching_ids, strip(id_group),
                        <<[day |-> day_num, date |-> strptime_date(date_str)]>>)

\* the loop over re.compile(r'BEGIN:VEVENT(.*?)END:VEVENT', re.DOTALL).finditer
RECURSIVE read_ics_events(_, _, _)
read_ics_events(content, from, matching_ids) ==
    LET begins == {i \in from..Len(content) :
                      content[i] = "BEGIN:VEVENT"
                      /\ PositionsAfter(content, i, "END:VEVENT") # {}}
    IN IF begins = {} THEN matching_ids
       ELSE LET b == Min(begins)
                e == Min(PositionsAfter(content, b, "END:VEVENT"))
            IN read_ics_events(content, e + 1,
                               read_ics_event(matching_ids, SubSeq(content, b + 1, e - 1)))

\* the loop "Extract Day 0 dates" of read_ics_file (lines 131-134)
ics_fill_day0(matching_ids) ==
    [k \in 1..Len(matching_ids) |->
        [matching_ids[k] EXCEPT !.day0_date = extract_day0_from_ics_events(matching_ids[k].events)]]

\* read_ics_file: the groups of one export file
read_ics_file(content) == ics_fill_day0(read_ics_events(content, 1, <<>>))

\* MergeGroup with "matching_ids[exp_id] = exp_data" on both branches: the group
\* of a later file replaces the one already there
MergeGroup_Overwrite(matching_ids, exp_data) ==
    IF HasKey(matching_ids, exp_data.id)
    THEN [matching_ids EXCEPT ![KeyIndex(matching_ids, exp_data.id)] = exp_data]
    ELSE Append(matching_ids, exp_data)

\* lines 194-198: the group of a file enters the result as it is when its key
\* is new, its events extend the group already there otherwise
MergeGroup(matching_ids, exp_data) ==
    IF HasKey(matching_ids, exp_data.id)
    THEN ExtendGroup(matching_ids, exp_data.id, exp_data.events)
    ELSE Append(matching_ids, exp_data)

\* the inner loop of find_matching_ids_in_ics_files over the groups of one file
RECURSIVE ics_merge_file(_, _, _, _)
ics_merge_file(matching_ids, ics_data, k, partial_id_lower) ==
    IF k > Len(ics_data) THEN matching_ids
    ELSE ics_merge_file(
             IF IsSubstring(partial_id_lower, lower(ics_data[k].id))
             THEN MergeGroup(matching_ids, ics_data[k])
             ELSE matching_ids,
             ics_data, k + 1, partial_id_lower)

\* the loop of find_matching_ids_in_ics_files over Path(calendar_dir).glob("*.ics")
RECURSIVE ics_scan_files(_, _, _, _)
ics_scan_files(dir, f, matching_ids, partial_id_lower) ==
    IF f > Len(dir) THEN matching_ids
    ELSE ics_scan_files(dir, f + 1,
             ics_merge_file(matching_ids, read_ics_file(dir[f].content), 1, partial_id_lower),
             partial_id_lower)

find_matching_ids_in_ics_files(dir, partial_id) ==
    ics_scan_files(dir, 1, <<>>, lower(partial_id))

\* remove_events_from_ics doing what its docstring plans: the files that hold
\* events of exp_id are deleted
remove_events_from_ics_Deletes(dir, exp_id) ==
    [dir |-> SelectSeq(dir, LAMBDA file : ~HasKey(read_ics_file(file.content), exp_id)),
     ret |-> TRUE]

\* remove_events_from_ics: a placeholder, no file is touched
remove_events_from_ics(dir, exp_id) == [dir |-> dir, ret |-> TRUE]

----------------------------------------------------------------------------
(* Failures of the environment.  A request meets at most one: fault.op is    *)
(* what fails, fault.n the ordinal, within the request, of the backend call  *)
(* it strikes, fault.k the event within that call.                           *)

Fault(op, call, n, k) == [op |-> op, call |-> call, n |-> n, k |-> k]

NoFault == Fault("none", "none", 0, 0)

\* access_granted.wait(timeout=5) returns without the callback having run
AccessTimesOut(fault, call, n) == fault = Fault("timeout", call, n, 0)

\* access_callback runs within the wait with granted = False: the user, or the
\* privacy settings, refused access to the calendars
AccessDenied(fault, call, n) == fault = Fault("denied", call, n, 0)

\* whether calendar access was granted before the wait ended
AccessGranted(fault, call, n) == ~AccessTimesOut(fault, call, n) /\ ~AccessDenied(fault, call, n)

----------------------------------------------------------------------------
(* calendar_macos.py: the native backend.  The calendar named calendar_name  *)
(* is [exists, events]; events holds the EKEvents in the order the event     *)
(* store returns them.                                                       *)

\* timedelta(days=365*2) of the search range
WindowDays == 730

\* "if not access_granted.is_set(): return False": access_callback sets the
\* threading.Event whatever granted is, so past the wait the function goes on to
\* event_store.calendarsForEntityType_ unless the wait timed out
macos_reads_store(fault, call, n) == ~AccessTimesOut(fault, call, n)

\* the calendar as event_store.calendarsForEntityType_ shows it: an event store
\* that was refused access shows no calendar
calendarsForEntityType(cal, fault, call, n) ==
    IF AccessDenied(fault, call, n) THEN [exists |-> FALSE, events |-> <<>>] ELSE cal

\* a <= b on datetimes
NotAfter(a, b) == a.day < b.day \/ (a.day = b.day /\ a.sec <= b.sec)

\* eventsMatchingPredicate_ over (now - 2 years, now + 2 years): the events of
\* the calendar that start in the range, in store order
RECURSIVE eventsMatchingPredicate(_, _)
eventsMatchingPredicate(events, clock) ==
    IF Len(events) = 0 THEN <<>>
    ELSE (IF /\ NotAfter(MinusDays(clock, WindowDays), events[1].start)
             /\ NotAfter(events[1].start, PlusDays(clock, WindowDays))
          THEN <<events[1]>> ELSE <<>>)
         \o eventsMatchingPredicate(Tail(events), clock)

\* the save loop of add_to_calendar: the events whose save succeeded
RECURSIVE macos_save_loop(_, _, _, _, _)
macos_save_loop(dated_entries, i, exp_id, fault, n) ==
    IF i > Len(dated_entries) THEN <<>>
    ELSE (IF fault = Fault("save_fails", "add", n, i)
          THEN <<>>
          ELSE <<NewEKEvent(exp_id, dated_entries[i].day_num, dated_entries[i].task,
                            dated_entries[i].calendar_date)>>)
         \o macos_save_loop(dated_entries, i + 1, exp_id, fault, n)

\* calendar_macos.add_to_calendar
macos_add(cal, dated_entries, exp_id, place, fault, n) ==
    IF ~macos_reads_store(fault, "add", n)
    THEN [cal |-> cal, ret |-> FALSE]
    ELSE IF /\ ~calendarsForEntityType(cal, fault, "add", n).exists
            /\ (fault = Fault("create_fails", "add", n, 0) \/ AccessDenied(fault, "add", n))
    THEN [cal |-> cal, ret |-> FALSE]
    ELSE LET saved == macos_save_loop(dated_entries, 1, exp_id, fault, n)
         IN [cal |-> [exists |-> TRUE,
                      events |-> IF place = "first" THEN saved \o cal.events
                                 ELSE cal.events \o saved],
             ret |-> TRUE]

\* the test of remove_from_calendar on one event
macos_remove_selects(event, exp_id) ==
    /\ event.notes # <<>>
    /\ IsSubstring(<<"[EXPERIMENT_ID:">> \o exp_id \o <<"]">>, event.notes)
    /\ IsSubstring(exp_id, event.title)

\* the delete loop of remove_from_calendar over the events found: the events
\* of the calendar that are left and deleted_count
RECURSIVE macos_delete_loop(_, _, _, _, _, _)
macos_delete_loop(events, clock, exp_id, fault, n, selected) ==
    IF Len(events) = 0 THEN [events |-> <<>>, deleted_count |-> 0]
    ELSE LET found == eventsMatchingPredicate(<<events[1]>>, clock) # <<>>
             sel == found /\ macos_remove_selects(events[1], exp_id)
             success == sel /\ fault # Fault("delete_fails", "remove", n, selected + 1)
             rest == macos_delete_loop(Tail(events), clock, exp_id, fault, n,
                                       IF sel THEN selected + 1 ELSE selected)
         IN [events |-> (IF success THEN <<>> ELSE <<events[1]>>) \o rest.events,
             deleted_count |-> rest.deleted_count + (IF success THEN 1 ELSE 0)]

\* calendar_macos.remove_from_calendar
macos_remove(cal, exp_id, clock, fault, n) ==
    IF ~macos_reads_store(fault, "remove", n)
       \/ ~calendarsForEntityType(cal, fault, "remove", n).exists
    THEN [cal |-> cal, ret |-> FALSE]
    ELSE LET r == macos_delete_loop(cal.events, clock, exp_id, fault, n, 0)
         IN [cal |-> [cal EXCEPT !.events = r.events], ret |-> r.deleted_count > 0]

\* the experiment id find_matching_experiment_ids reads from one event: from
\* the notes first, from the title otherwise; <<>> when there is none
macos_event_id(event) ==
    LET from_notes == IF event.notes # <<>> THEN strip(id_pattern_search(event.notes))
                      ELSE <<>>
    IN IF from_notes # <<>> THEN from_notes
       ELSE IF event.title # <<>> THEN title_pattern_search(event.title)
       ELSE <<>>

\* the loop of find_matching_experiment_ids over the events found
RECURSIVE macos_find_loop(_, _, _, _)
macos_find_loop(events, i, matching_ids, partial_id_lower) ==
    IF i > Len(events) THEN matching_ids
    ELSE LET exp_id == macos_event_id(events[i])
         IN macos_find_loop(events, i + 1,
                IF exp_id # <<>> /\ IsSubstring(partial_id_lower, lower(exp_id))
                THEN ExtendGroup(matching_ids, exp_id, <<events[i]>>)
                ELSE matching_ids,
                partial_id_lower)

\* calendar_macos.find_matching_experiment_ids
macos_find(cal, partial_id, clock, fault) ==
    IF ~macos_reads_store(fault, "find", 1)
       \/ ~calendarsForEntityType(cal, fault, "find", 1).exists
    THEN <<>>
    ELSE macos_find_loop(eventsMatchingPredicate(cal.events, clock), 1, <<>>,
                         lower(partial_id))

----------------------------------------------------------------------------
(* calendar_platform.py: the backend chosen once.  The world a request acts  *)
(* on is w = [backend, calendar, dir]; env = [platform, clock, place, fault] *)
(* is what the environment decides.                                          *)

\* _init_backend without "if _calendar_backend is not None": the backend is
\* decided again on every call
init_backend_NoCache(cached, host) ==
    IF host.system = "Darwin" /\ host.eventkit THEN "macos" ELSE "ics"

\* _init_backend: the cached backend, chosen on the first call
init_backend(cached, host) ==
    IF cached # "none" THEN cached
    ELSE IF host.system = "Darwin" /\ host.eventkit THEN "macos"
    ELSE "ics"

\* what a platform function gives for the value r = [cal, ret] of the native backend
macos_call(w, backend, r) ==
    [w |-> [w EXCEPT !.backend = backend, !.calendar = r.cal], ret |-> r.ret, raised |-> FALSE]

\* _ics_add_wrapper around generate_ics_file with value r = [dir, raised]: True
\* when the file is written, the exception let through otherwise
ics_add_wrapper(w, backend, r) ==
    [w |-> [w EXCEPT !.backend = backend, !.dir = r.dir], ret |-> ~r.raised, raised |-> r.raised]

\* _ics_remove_wrapper around remove_events_from_ics with value r = [dir, ret]
ics_remove_wrapper(w, backend, r) ==
    [w |-> [w EXCEPT !.backend = backend, !.dir = r.dir], ret |-> r.ret, raised |-> FALSE]

\* calendar_platform.add_to_calendar: the n-th add of a request
add_to_calendar(w, dated_entries, exp_id, env, n) ==
    IF init_backend(w.backend, env.platform) = "macos"
    THEN macos_call(w, "macos",
                    macos_add(w.calendar, dated_entries, exp_id, env.place, env.fault, n))
    ELSE ics_add_wrapper(w, "ics",
                         generate_ics_file(w.dir, dated_entries, exp_id, env.clock, env.place,
                                           env.fault = Fault("write_fails", "add", n, 0)))

\* calendar_platform.remove_from_calendar: the n-th remove of a request
remove_from_calendar(w, exp_id, env, n) ==
    IF init_backend(w.backend, env.platform) = "macos"
    THEN macos_call(w, "macos", macos_remove(w.calendar, exp_id, env.clock, env.fault, n))
    ELSE ics_remove_wrapper(w, "ics", remove_events_from_ics(w.dir, exp_id))

\* calendar_platform.find_matching_experiment_ids
find_matching_experiment_ids(w, partial_id, env) ==
    LET backend == init_backend(w.backend, env.platform)
    IN [w |-> [w EXCEPT !.backend = backend],
        ret |-> IF backend = "macos"
                THEN macos_find(w.calendar, partial_id, env.clock, env.fault)
                ELSE find_matching_ids_in_ics_files(w.dir, partial_id)]

\* calendar_platform.extract_day0_from_events
extract_day0_from_events(w, events, env) ==
    IF init_backend(w.backend, env.platform) = "macos"
    THEN macos_extract_day0(events)
    ELSE extract_day0_from_ics_events(events)

\* calendar_platform.get_backend_type
get_backend_type(w, env) == init_backend(w.backend, env.platform)

----------------------------------------------------------------------------
(* calendar_server.py: CalendarHandler.do_POST on /api/process.  A handler   *)
(* run gives [w, result, sent, calls]: the world afterwards, the result      *)
(* dict, whether the response was sent, and the backend calls made in order. *)
(* A text of result is a sequence of lines [kind, id, count].                *)

Line(kind, id, count) == [kind |-> kind, id |-> id, count |-> count]

\* result = {'success': False, 'message': '', 'error': ''}
EmptyResult == [success |-> FALSE, message |-> <<>>, error |-> <<>>]

ErrorResult(kind, id) == [EmptyResult EXCEPT !.error = <<Line(kind, id, 0)>>]

Call(op, id, ok, raised) == [op |-> op, id |-> id, ok |-> ok, raised |-> raised]

\* the handler reaches "Send response" (lines 329-334)
Responds(w, result, calls) ==
    [w |-> w, result |-> result, sent |-> TRUE, calls |-> calls,
     matching_ids |-> <<>>, entries |-> <<>>]

\* the handler leaves do_POST by a bare return: nothing is written to the client
Returns(w, result, calls) ==
    [w |-> w, result |-> result, sent |-> FALSE, calls |-> calls,
     matching_ids |-> <<>>, entries |-> <<>>]

\* the locals matching_ids and entries of the update branch, as the handler leaves them
WithLocals(out, matching_ids, entries) ==
    [out EXCEPT !.matching_ids = matching_ids, !.entries = entries]

\* no upload in the form
NoFile == [suffix |-> "", text |-> <<>>, readable |-> FALSE]

\* the branch on Path(filename).suffix.lower()
SupportedSuffix(file_data) == file_data.suffix \in {".pdf", ".docx", ".doc"}

\* lines 153-158: the result for the value r of remove_from_calendar
remove_result(exp_id, r) ==
    Responds(r.w,
             IF r.ret
             THEN [EmptyResult EXCEPT !.success = TRUE,
                      !.message = <<Line("Successfully removed events", exp_id, 0)>>]
             ELSE ErrorResult("No events found or calendar not found", exp_id),
             <<Call("remove", exp_id, r.ret, FALSE)>>)

\* action == 'remove'
post_remove(w, exp_id, env) ==
    IF exp_id = <<>>
    THEN Responds(w, ErrorResult("Experiment ID is required", <<>>), <<>>)
    ELSE remove_result(exp_id, remove_from_calendar(w, exp_id, env, 1))

\* update_day0_loop with "continue" where the handler returns: an identifier
\* without a Day 0 is skipped and the update goes on
RECURSIVE update_day0_loop_Skip(_, _, _, _, _)
update_day0_loop_Skip(w, matching_ids, i, env, calls) ==
    IF i > Len(matching_ids)
    THEN [ok |-> TRUE, matching_ids |-> matching_ids, failed |-> <<>>, calls |-> calls]
    ELSE LET day0_date == extract_day0_from_events(w, matching_ids[i].events, env)
         IN update_day0_loop_Skip(w,
                IF day0_date # NoDate THEN [matching_ids EXCEPT ![i].day0_date = day0_date]
                ELSE matching_ids,
                i + 1, env,
                Append(calls, Call("extract_day0", matching_ids[i].id, day0_date # NoDate,
                                   FALSE)))

\* the loop "Extract Day 0 dates for each matching ID" (lines 178-185): the
\* groups with day0_date filled in, or the first identifier without a Day 0
RECURSIVE update_day0_loop(_, _, _, _, _)
update_day0_loop(w, matching_ids, i, env, calls) ==
    IF i > Len(matching_ids)
    THEN [ok |-> TRUE, matching_ids |-> matching_ids, failed |-> <<>>, calls |-> calls]
    ELSE LET day0_date == extract_day0_from_events(w, matching_ids[i].events, env)
             calls2 == Append(calls, Call("extract_day0", matching_ids[i].id,
                                          day0_date # NoDate, FALSE))
         IN IF day0_date # NoDate
            THEN update_day0_loop(w, [matching_ids EXCEPT ![i].day0_date = day0_date],
                                  i + 1, env, calls2)
            ELSE [ok |-> FALSE, matching_ids |-> matching_ids, failed |-> matching_ids[i].id,
                  calls |-> calls2]

\* lines 226-229 after the remove with value rem: the dates assigned, the add
add_after_remove(rem, dated_entries, exp_id_full, env, i) ==
    [remove_success |-> rem.ret,
     add |-> add_to_calendar(rem.w, dated_entries, exp_id_full, env, i),
     events |-> Len(dated_entries)]

\* lines 220-229: one identifier's remove and add, the i-th of the request
remove_and_add(w, exp_id_full, day0_date, entries, env, i) ==
    add_after_remove(remove_from_calendar(w, exp_id_full, env, i),
                     assign_dates(entries, day0_date, exp_id_full), exp_id_full, env, i)

RECURSIVE update_loop(_, _, _, _, _, _, _)

\* lines 231-235 for the outcome it of the i-th remove and add, then the rest
\* of the loop; an exception raised by the add leaves the loop
update_report(it, matching_ids, i, entries, env, message, total_updated, calls) ==
    LET exp_id_full == matching_ids[i].id
        calls2 == calls \o <<Call("remove", exp_id_full, it.remove_success, FALSE),
                             Call("add", exp_id_full, it.add.ret, it.add.raised)>>
    IN IF it.add.raised
       THEN [w |-> it.add.w, message |-> message, total_updated |-> total_updated,
             calls |-> calls2, raised |-> TRUE]
       ELSE update_loop(it.add.w, matching_ids, i + 1, entries, env,
                [message |-> Append(message,
                                    IF it.add.ret THEN Line("Updated", exp_id_full, it.events)
                                    ELSE Line("Failed to update", exp_id_full, 0)),
                 total_updated |-> IF it.add.ret THEN total_updated + 1 ELSE total_updated],
                calls2)

\* the loop "Update each matching experiment ID" (lines 219-235); so_far holds
\* message and total_updated
update_loop(w, matching_ids, i, entries, env, so_far, calls) ==
    IF i > Len(matching_ids)
    THEN [w |-> w, message |-> so_far.message, total_updated |-> so_far.total_updated,
          calls |-> calls, raised |-> FALSE]
    ELSE update_report(remove_and_add(w, matching_ids[i].id, matching_ids[i].day0_date,
                                      entries, env, i),
                       matching_ids, i, entries, env, so_far.message, so_far.total_updated,
                       calls)

\* lines 237-251: the result for the outcome u of the loop
update_result(u, matching_ids, entries) ==
    WithLocals(Responds(u.w,
                        IF u.raised THEN ErrorResult("Error updating calendar", <<>>)
                        ELSE IF u.total_updated > 0
                        THEN [EmptyResult EXCEPT !.success = TRUE,
                                 !.message = Append(u.message,
                                     Line("Successfully updated experiment(s)", <<>>,
                                          u.total_updated))]
                        ELSE ErrorResult("Failed to update any experiments", <<>>),
                        u.calls),
               matching_ids, entries)

\* lines 210-241 for the entries parsed from the upload
update_entries(w, d, exp_id, entries, env) ==
    IF entries = <<>>
    THEN WithLocals(Returns(w, ErrorResult("No Day entries found in the document", <<>>),
                            d.calls),
                    d.matching_ids, <<>>)
    ELSE update_result(update_loop(w, d.matching_ids, 1, entries, env,
                                   [message |-> <<Line("Found experiment(s) matching", exp_id,
                                                       Len(d.matching_ids))>>,
                                    total_updated |-> 0],
                                   d.calls),
                       d.matching_ids, entries)

\* lines 180-213 for the outcome d of the Day 0 loop
update_day0(w, d, exp_id, file_data, env) ==
    IF ~d.ok
    THEN WithLocals(Returns(w, ErrorResult("Could not extract Day 0 date", d.failed), d.calls),
                    d.matching_ids, <<>>)
    ELSE IF ~SupportedSuffix(file_data)
    THEN WithLocals(Returns(w, ErrorResult("Unsupported file type", <<>>), d.calls),
                    d.matching_ids, <<>>)
    ELSE IF ~file_data.readable
    THEN WithLocals(Responds(w, ErrorResult("Error updating calendar", <<>>), d.calls),
                    d.matching_ids, <<>>)
    ELSE update_entries(w, d, exp_id, parse_day_entries(file_data.text), env)

\* lines 173-185 for the value found of find_matching_experiment_ids
update_found(found, exp_id, file_data, env) ==
    IF found.ret = <<>>
    THEN Returns(found.w, ErrorResult("No experiments found matching ID pattern", exp_id),
                 <<Call("find", exp_id, FALSE, FALSE)>>)
    ELSE update_day0(found.w,
                     update_day0_loop(found.w, found.ret, 1, env,
                                      <<Call("find", exp_id, TRUE, FALSE)>>),
                     exp_id, file_data, env)

\* action == 'update'
post_update(w, exp_id, file_data, env) ==
    IF file_data = NoFile
    THEN Responds(w, ErrorResult("Please select a protocol file", <<>>), <<>>)
    ELSE IF exp_id = <<>>
    THEN Responds(w, ErrorResult("Experiment ID pattern is required", <<>>), <<>>)
    ELSE update_found(find_matching_experiment_ids(w, exp_id, env), exp_id, file_data, env)

\* the lines "Day N (date): ID: eid, Day N: task" of the parse message
ParsedLines(dated_entries) ==
    [i \in 1..Len(dated_entries) |->
        Line("Day", dated_entries[i].exp_id, dated_entries[i].day_num)]

\* lines 300-304: the message of a parse
parse_message(dated_entries) ==
    <<Line("Parsed day entries successfully", <<>>, Len(dated_entries))>>
    \o ParsedLines(dated_entries)

\* lines 309-313 and 327: the result for the value add of add_to_calendar
add_result(add, exp_id, dated_entries) ==
    Responds(add.w,
             IF add.raised THEN ErrorResult("Error processing file", <<>>)
             ELSE IF add.ret
             THEN [EmptyResult EXCEPT !.success = TRUE,
                      !.message = Append(parse_message(dated_entries),
                                         Line("Added events to Apple Calendar", <<>>,
                                              Len(dated_entries)))]
             ELSE ErrorResult("Failed to add events to calendar", <<>>),
             <<Call("add", exp_id, add.ret, add.raised)>>)

\* lines 300-317 for the dated entries
create_dated(w, action, exp_id, dated_entries, env) ==
    IF action = "add"
    THEN add_result(add_to_calendar(w, dated_entries, exp_id, env, 1), exp_id, dated_entries)
    ELSE Responds(w, [EmptyResult EXCEPT !.success = TRUE,
                         !.message = parse_message(dated_entries)], <<>>)

\* lines 284-298 for the entries parsed from the upload
create_entries(w, action, exp_id, entries, day0_date_str, env) ==
    IF entries = <<>>
    THEN Returns(w, ErrorResult("No Day entries found in the document", <<>>), <<>>)
    ELSE create_dated(w, action, exp_id,
                      assign_dates(entries,
                                   Midnight(IF day0_date_str # <<>>
                                            THEN strptime_date(day0_date_str)
                                            ELSE env.clock),
                                   exp_id),
                      env)

\* the else branch of do_POST: action 'parse' (the default) or 'add'
post_create(w, action, exp_id, file_data, day0_date_str, env) ==
    IF file_data = NoFile
    THEN Responds(w, ErrorResult("Please select a protocol file", <<>>), <<>>)
    ELSE IF exp_id = <<>>
    THEN Responds(w, ErrorResult("Experiment ID is required", <<>>), <<>>)
    ELSE IF ~SupportedSuffix(file_data)
    THEN Returns(w, ErrorResult("Unsupported file type", <<>>), <<>>)
    ELSE IF ~file_data.readable
    THEN Responds(w, ErrorResult("Error processing file", <<>>), <<>>)
    ELSE create_entries(w, action, exp_id, parse_day_entries(file_data.text), day0_date_str, env)

\* do_POST for self.path == '/api/process' and a multipart form
do_POST(w, form, env) ==
    IF form.action = "remove" THEN post_remove(w, form.expId, env)
    ELSE IF form.action = "update" THEN post_update(w, form.expId, form.file, env)
    ELSE post_create(w, form.action, form.expId, form.file, form.day0Date, env)

----------------------------------------------------------------------------
(* The server: one action per request to /api/process, handled to the end   *)
(* (socketserver.TCPServer serves one request at a time).                    *)

server_vars == <<platform, now, calendar_backend, calendar, calendar_exports, last, previous, requests>>

vars == <<platform, now, calendar_backend, calendar, calendar_exports, last, previous, requests,
          infer, trial>>

\* no function is taken alone
NoTrial == [op |-> "none"]

\* datetime.now() when the server starts: a day, and 09:30:00 as seconds
StartClock == [day |-> 100, sec |-> 34200]

StartDay == StartClock.day

ENC2 == <<"E", "N", "C", "2">>

enc == <<"e", "n", "c">>

\* "Day 0: seed. Day 5: harvest."
TextA == <<"Day", " ", "0", ":", " ", "seed", ".", " ",
           "Day", " ", "5", ":", " ", "harvest", ".">>

\* "Day 5: harvest."
TextB == <<"Day", " ", "5", ":", " ", "harvest", ".">>

\* the uploads of the forms: file_data, with the text its extractor returns
DocA == [suffix |-> ".pdf", text |-> TextA, readable |-> TRUE]

DocB == [suffix |-> ".docx", text |-> TextB, readable |-> TRUE]

\* "Day 5: as in [EXPERIMENT_ID:ENC2]."
DocTag ==
    [suffix |-> ".pdf",
     text |-> <<"Day", " ", "5", ":", " ", "as", " ", "in", " ",
                "[EXPERIMENT_ID:", "E", "N", "C", "2", "]", ".">>,
     readable |-> TRUE]

DocNoDays == [suffix |-> ".pdf", text |-> <<"notes", ".">>, readable |-> TRUE]

DocTxt == [suffix |-> ".txt", text |-> TextA, readable |-> TRUE]

DocCorrupt == [suffix |-> ".pdf", text |-> <<>>, readable |-> FALSE]

\* the form field day0Date when it is filled in (empty, Day 0 is today)
Day0DateInput == <<"1", "2", "0">>

\* the form field day0Date for a Day 0 more than two years ahead
Day0FarInput == str(StartDay + WindowDays + 1)

Form(action, expId, file, day0Date) ==
    [action |-> action, expId |-> expId, file |-> file, day0Date |-> day0Date]

RemoveForms == {Form("remove", id, NoFile, <<>>) : id \in {<<>>, ENC1, ENC2}}

UpdateForms ==
    {Form("update", enc, NoFile, <<>>), Form("update", <<>>, DocA, <<>>),
     Form("update", ENC1, DocTag, <<>>)}
    \cup {Form("update", enc, doc, <<>>) : doc \in {DocA, DocNoDays, DocTxt, DocCorrupt}}

CreateForms ==
    {Form("add", ENC1, DocA, <<>>), Form("add", ENC1, DocB, Day0DateInput),
     Form("add", ENC2, DocB, <<>>), Form("add", ENC1, DocB, Day0FarInput)}
    \cup {Form("add", ENC1, doc, <<>>) : doc \in {NoFile, DocTxt, DocNoDays, DocCorrupt}}
    \cup {Form("add", <<>>, DocA, <<>>), Form("parse", ENC1, DocA, <<>>)}

\* the backend calls and the events within a call that a failure may strike
FaultCalls == {1, 2}

FaultEvents == {1}

\* the form gets as far as parsing day entries out of the upload
ParsesEntries(form) ==
    /\ form.expId # <<>>
    /\ form.file # NoFile /\ SupportedSuffix(form.file) /\ form.file.readable
    /\ parse_day_entries(form.file.text) # <<>>

\* what may fail in the backend calls made for the entries of an upload
CallFaults(action, backend) ==
    IF backend = "macos"
    THEN IF action = "update"
         THEN {Fault("timeout", call, n, 0) : call \in {"remove", "add"}, n \in FaultCalls}
              \cup {Fault("denied", call, 1, 0) : call \in {"remove", "add"}}
              \cup {Fault("delete_fails", "remove", n, k) : n \in FaultCalls, k \in FaultEvents}
              \cup {Fault("save_fails", "add", n, k) : n \in FaultCalls, k \in FaultEvents}
         ELSE IF action = "add"
         THEN {Fault("timeout", "add", 1, 0), Fault("denied", "add", 1, 0),
               Fault("create_fails", "add", 1, 0)}
              \cup {Fault("save_fails", "add", 1, k) : k \in FaultEvents}
         ELSE {}
    ELSE IF action = "update" THEN {Fault("write_fails", "add", n, 0) : n \in FaultCalls}
    ELSE IF action = "add" THEN {Fault("write_fails", "add", 1, 0)}
    ELSE {}

\* what may fail in the backend calls made before the upload is read
FirstFaults(form, backend) ==
    IF backend # "macos" \/ form.expId = <<>> THEN {}
    ELSE IF form.action = "remove"
    THEN {Fault("timeout", "remove", 1, 0), Fault("denied", "remove", 1, 0)}
         \cup {Fault("delete_fails", "remove", 1, k) : k \in FaultEvents}
    ELSE IF form.action = "update" /\ form.file # NoFile
    THEN {Fault("timeout", "find", 1, 0), Fault("denied", "find", 1, 0)}
    ELSE {}

\* what the environment may do while the form is handled, as pairs of a fault
\* and a place: a failure of a backend call the handler can reach, with what is
\* added listed last; or no failure, with what is added listed first or last
Inputs(form, backend) ==
    {<<fault, "last">> : fault \in {NoFault} \cup FirstFaults(form, backend)}
    \cup IF ParsesEntries(form)
         THEN {<<fault, "last">> : fault \in CallFaults(form.action, backend)}
              \cup IF form.action \in {"update", "add"} THEN {<<NoFault, "first">>} ELSE {}
         ELSE {}

NoCalendar == [exists |-> FALSE, events |-> <<>>]

\* an event stored for ENC2 whose title was rewritten in the Calendar app
RetitledEvent ==
    [title |-> <<"harvest">>,
     notes |-> NotesText(ENC2, <<"harvest">>),
     start |-> [day |-> StartDay + 5, sec |-> 0]]

\* calendar_exports as a run of the day before left it: one file, written for
\* ENC2 from "Day 5: harvest." with that day as Day 0
ExportedEarlier ==
    generate_ics_file(<<>>,
                      assign_dates(parse_day_entries(TextB),
                                   Midnight(MinusDays(StartClock, 1)), ENC2),
                      ENC2, MinusDays(StartClock, 1), "last", FALSE).dir

\* no request is being handled
NoRequest ==
    [form |-> Form("none", <<>>, NoFile, <<>>), fault |-> NoFault, place |-> "last",
     result |-> EmptyResult, sent |-> FALSE, calls |-> <<>>,
     matching_ids |-> <<>>, entries |-> <<>>]

Init ==
    /\ platform \in {[system |-> "Darwin", eventkit |-> TRUE],
                     [system |-> "Darwin", eventkit |-> FALSE],
                     [system |-> "Linux", eventkit |-> FALSE]}
    /\ now = StartClock
    /\ calendar_backend = "none"
    /\ calendar \in IF platform.eventkit
                    THEN {NoCalendar, [exists |-> TRUE, events |-> <<RetitledEvent>>]}
                    ELSE {NoCalendar}
    /\ calendar_exports = IF platform.system = "Linux" THEN ExportedEarlier ELSE <<>>
    /\ last = NoRequest
    /\ previous = NoRequest.form
    /\ requests = 0
    /\ infer = [events |-> <<>>, backend |-> "none", result |-> NoDate]
    /\ trial = NoTrial

\* the handler has run with outcome out
Handled(form, fault, place, out) ==
    /\ calendar_backend' = out.w.backend
    /\ calendar' = out.w.calendar
    /\ calendar_exports' = out.w.dir
    /\ last' = [form |-> form, fault |-> fault, place |-> place,
                result |-> out.result, sent |-> out.sent, calls |-> out.calls,
                matching_ids |-> out.matching_ids, entries |-> out.entries]

\* one request: the form posted, what the environment does, the handler run
\* (the server handles one request at a time)
Handle(form, fault, place) ==
    /\ last = NoRequest
    /\ requests < MaxRequests
    /\ requests' = requests + 1
    /\ \E out \in {do_POST([backend |-> calendar_backend, calendar |-> calendar,
                             dir |-> calendar_exports],
                            form,
                            [platform |-> platform, clock |-> now, place |-> place,
                             fault |-> fault])} :
           Handled(form, fault, place, out)
    /\ UNCHANGED <<platform, now, previous, infer, trial>>

PostRemove ==
    \E form \in RemoveForms :
        \E input \in Inputs(form, init_backend(calendar_backend, platform)) :
            Handle(form, input[1], input[2])

PostUpdate ==
    \E form \in UpdateForms :
        \E input \in Inputs(form, init_backend(calendar_backend, platform)) :
            Handle(form, input[1], input[2])

PostCreate ==
    \E form \in CreateForms :
        \E input \in Inputs(form, init_backend(calendar_backend, platform)) :
            Handle(form, input[1], input[2])

\* do_POST has returned: the handler's locals are gone and the server waits
\* for the next request, remembering nothing but what the backend stores
Return ==
    /\ last # NoRequest
    /\ last' = NoRequest
    /\ previous' = IF last.form.action = "update" /\ last.result.success /\ last.fault = NoFault
                   THEN last.form
                   ELSE NoRequest.form
    /\ UNCHANGED <<platform, now, calendar_backend, calendar, calendar_exports, requests, infer,
                   trial>>

\* a second passes
Tick ==
    /\ last = NoRequest
    /\ now.sec < StartClock.sec + MaxTicks
    /\ now' = [now EXCEPT !.sec = now.sec + 1]
    /\ UNCHANGED <<platform, calendar_backend, calendar, calendar_exports, last, previous,
                   requests, infer, trial>>

Next == PostRemove \/ PostUpdate \/ PostCreate \/ Return \/ Tick

Spec == Init /\ [][Next]_vars

----------------------------------------------------------------------------
(* Day-0 inference taken alone: every bounded event sequence *)

InferDayNumbers == {0, 2, 3}

InferDates == {[day |-> d, sec |-> s] : d \in {10, 12, 13}, s \in {0, 34200}}

InferEventSet == [day : InferDayNumbers, date : InferDates]

RECURSIVE SeqsUpTo(_, _)
SeqsUpTo(S, n) ==
    IF n = 0 THEN {<<>>}
    ELSE LET shorter == SeqsUpTo(S, n - 1)
         IN shorter \cup {Append(q, x) : q \in {p \in shorter : Len(p) = n - 1}, x \in S}

\* the stored events as the native backend holds them
AsEKEvents(events) ==
    [i \in 1..Len(events) |->
        NewEKEvent(ENC1, events[i].day, <<"seed">>, events[i].date)]

InitDay0 ==
    /\ infer \in [events : SeqsUpTo(InferEventSet, MaxEvents), backend : {"none"},
                  result : {NoDate}]
    /\ platform = [system |-> "Linux", eventkit |-> FALSE]
    /\ now = StartClock
    /\ calendar_backend = "none"
    /\ calendar = NoCalendar
    /\ calendar_exports = <<>>
    /\ last = NoRequest
    /\ previous = NoRequest.form
    /\ requests = 0
    /\ trial = NoTrial

InferIcs ==
    /\ infer.backend = "none"
    /\ infer' = [infer EXCEPT !.backend = "ics",
                              !.result = extract_day0_from_ics_events(infer.events)]
    /\ UNCHANGED <<server_vars, trial>>

InferMacos ==
    /\ infer.backend = "none"
    /\ infer' = [infer EXCEPT !.backend = "macos",
                              !.result = macos_extract_day0(AsEKEvents(infer.events))]
    /\ UNCHANGED <<server_vars, trial>>

NextDay0 == InferIcs \/ InferMacos

SpecDay0 == InitDay0 /\ [][NextDay0]_vars

----------------------------------------------------------------------------
(* The two Day-0 inferencers side by side: a sequence of {day, date} events  *)
(* as the export files give them, and the same events as the native store    *)
(* holds them, possibly with one event among them that has no title, no      *)
(* "Day N" marker or no start date.                                          *)

EquivEventSet == [day : InferDayNumbers, date : {[day |-> 10, sec |-> 0], [day |-> 12, sec |-> 34200]}]

\* native events that carry no (day, date) pair: title() is None; the title
\* has no "Day N"; startDate() is None
IncompleteEvents ==
    {[title |-> <<>>, notes |-> NotesText(ENC1, <<"seed">>), start |-> [day |-> 1, sec |-> 0]],
     [title |-> <<"seed">>, notes |-> NotesText(ENC1, <<"seed">>), start |-> [day |-> 1, sec |-> 0]],
     NewEKEvent(ENC1, 0, <<"seed">>, NoDate),
     NewEKEvent(ENC1, 1, <<"seed">>, NoDate)}

InsertAt(seq, i, x) == SubSeq(seq, 1, i - 1) \o <<x>> \o SubSeq(seq, i, Len(seq))

\* the native stores that carry the pairs of events in the same order
NativeStorings(events) ==
    {AsEKEvents(events)}
    \cup {InsertAt(AsEKEvents(events), i, e) : i \in 1..(Len(events) + 1), e \in IncompleteEvents}

InitEquiv ==
    /\ \E e \in SeqsUpTo(EquivEventSet, MaxEvents) :
           \E n \in NativeStorings(e) :
               trial = [op |-> "equiv", events |-> e, native |-> n, done |-> {},
                        portable_result |-> NoDate, native_result |-> NoDate]
    /\ platform = [system |-> "Darwin", eventkit |-> TRUE]
    /\ now = StartClock
    /\ calendar_backend = "none"
    /\ calendar = NoCalendar
    /\ calendar_exports = <<>>
    /\ last = NoRequest
    /\ previous = NoRequest.form
    /\ requests = 0
    /\ infer = [events |-> <<>>, backend |-> "none", result |-> NoDate]

\* calendar_ics.extract_day0_from_ics_events(events)
InferPortable ==
    /\ trial.op = "equiv" /\ "ics" \notin trial.done
    /\ trial' = [trial EXCEPT !.done = @ \cup {"ics"},
                              !.portable_result = extract_day0_from_ics_events(trial.events)]
    /\ UNCHANGED <<server_vars, infer>>

\* calendar_macos.extract_day0_from_events(events)
InferNative ==
    /\ trial.op = "equiv" /\ "macos" \notin trial.done
    /\ trial' = [trial EXCEPT !.done = @ \cup {"macos"},
                              !.native_result = macos_extract_day0(trial.native)]
    /\ UNCHANGED <<server_vars, infer>>

NextEquiv == InferPortable \/ InferNative

SpecEquiv == InitEquiv /\ [][NextEquiv]_vars

----------------------------------------------------------------------------
(* calendar_platform.py taken alone: up to MaxCalls calls of its functions   *)
(* in one process, in any order, while the EventKit modules may become       *)
(* importable or stop being so (pyobjc installed or removed).  trial.used is *)
(* the type of the backend the latest call ran on.                           *)

InitBackend ==
    /\ trial = [op |-> "backend", calls |-> 0, used |-> "none"]
    /\ platform \in {[system |-> "Darwin", eventkit |-> TRUE],
                     [system |-> "Darwin", eventkit |-> FALSE],
                     [system |-> "Linux", eventkit |-> FALSE]}
    /\ now = StartClock
    /\ calendar_backend = "none"
    /\ calendar = NoCalendar
    /\ calendar_exports = <<>>
    /\ last = NoRequest
    /\ previous = NoRequest.form
    /\ requests = 0
    /\ infer = [events |-> <<>>, backend |-> "none", result |-> NoDate]

\* a platform function has run and left the world w
Called(w) ==
    /\ trial.op = "backend" /\ trial.calls < MaxCalls
    /\ trial' = [trial EXCEPT !.calls = @ + 1, !.used = w.backend]
    /\ calendar_backend' = w.backend
    /\ calendar' = w.calendar
    /\ calendar_exports' = w.dir
    /\ UNCHANGED <<platform, now, last, previous, requests, infer>>

\* the module global and the stores, as the platform functions see them
Globals == [backend |-> calendar_backend, calendar |-> calendar, dir |-> calendar_exports]

Env == [platform |-> platform, clock |-> now, place |-> "last", fault |-> NoFault]

CallAdd ==
    \E exp_id \in {ENC1, ENC2}, text \in {TextA, TextB} :
        Called(add_to_calendar(Globals,
                               assign_dates(parse_day_entries(text), Midnight(now), exp_id),
                               exp_id, Env, 1).w)

CallRemove == Called(remove_from_calendar(Globals, ENC1, Env, 1).w)

CallFind == Called(find_matching_experiment_ids(Globals, enc, Env).w)

\* extract_day0_from_events(events): _init_backend(), then the inferencer of
\* backend['type']
CallExtractDay0 ==
    Called([Globals EXCEPT !.backend = init_backend(calendar_backend, platform)])

CallGetBackendType ==
    Called([Globals EXCEPT !.backend = get_backend_type(Globals, Env)])

\* "from calendar_macos import ..." starts or stops raising ImportError
EventKitChanges ==
    /\ trial.op = "backend"
    /\ platform.system = "Darwin"
    /\ platform' = [platform EXCEPT !.eventkit = ~@]
    /\ UNCHANGED <<now, calendar_backend, calendar, calendar_exports, last, previous,
                   requests, infer, trial>>

NextBackend ==
    CallAdd \/ CallRemove \/ CallFind \/ CallExtractDay0 \/ CallGetBackendType
    \/ EventKitChanges

SpecBackend == InitBackend /\ [][NextBackend]_vars

----------------------------------------------------------------------------
(* find taken alone: every store of up to MaxUnits storage units, each the   *)
(* outcome of one add, and every query of FindQueries.  The same units make  *)
(* the export directory and the native calendar.                             *)

EncDash2 == <<"e", "n", "c", "-", "2">>

Science == <<"s", "c", "i", "e", "n", "c", "e">>

\* an identifier that is a substring of the query "enc"
EN == <<"E", "N">>

FindIds == {ENC1, EncDash2, Science, EN}

FindQueries == {enc, ENC1, <<"N", "C", "E">>, <<"z">>}

\* a unit is the add of a protocol for an identifier: "near" is TextA with
\* Day 0 today, "far" is TextB with Day 0 beyond the search range of the
\* native backend
FindUnits == [id : FindIds, shape : {"near", "far"}]

UnitEntries(unit) ==
    IF unit.shape = "near"
    THEN assign_dates(parse_day_entries(TextA), Midnight(StartClock), unit.id)
    ELSE assign_dates(parse_day_entries(TextB),
                      Midnight(PlusDays(StartClock, WindowDays + 1)), unit.id)

\* the export directory after generate_ics_file for each unit, a second apart
RECURSIVE ExportsOf(_, _)
ExportsOf(units, n) ==
    IF n = 0 THEN <<>>
    ELSE generate_ics_file(ExportsOf(units, n - 1), UnitEntries(units[n]), units[n].id,
                           [StartClock EXCEPT !.sec = @ + n], "last", FALSE).dir

\* the native calendar after add_to_calendar for each unit
RECURSIVE CalendarOf(_, _)
CalendarOf(units, n) ==
    IF n = 0 THEN NoCalendar
    ELSE macos_add(CalendarOf(units, n - 1), UnitEntries(units[n]), units[n].id, "last",
                   NoFault, 1).cal

InitFind ==
    /\ trial \in [op : {"find"}, units : SeqsUpTo(FindUnits, MaxUnits),
                  partial_id : FindQueries, backend : {"none"}, result : {<<>>}]
    /\ platform = [system |-> "Darwin", eventkit |-> TRUE]
    /\ now = StartClock
    /\ calendar_backend = "none"
    /\ calendar = CalendarOf(trial.units, Len(trial.units))
    /\ calendar_exports = ExportsOf(trial.units, Len(trial.units))
    /\ last = NoRequest
    /\ previous = NoRequest.form
    /\ requests = 0
    /\ infer = [events |-> <<>>, backend |-> "none", result |-> NoDate]

\* find_matching_ids_in_ics_files on the export directory
FindIcs ==
    /\ trial.op = "find" /\ trial.backend = "none"
    /\ trial' = [trial EXCEPT !.backend = "ics",
                     !.result = find_matching_ids_in_ics_files(calendar_exports,
                                                               trial.partial_id)]
    /\ UNCHANGED <<server_vars, infer>>

\* calendar_macos.find_matching_experiment_ids on the native calendar
FindMacos ==
    /\ trial.op = "find" /\ trial.backend = "none"
    /\ trial' = [trial EXCEPT !.backend = "macos",
                     !.result = macos_find(calendar, trial.partial_id, now, NoFault)]
    /\ UNCHANGED <<server_vars, infer>>

NextFind == FindIcs \/ FindMacos

SpecFind == InitFind /\ [][NextFind]_vars

----------------------------------------------------------------------------
(* The native remove taken alone: a calendar of up to MaxUnits events, each  *)
(* saved by add_to_calendar for one identifier and one task, then            *)
(* remove_from_calendar for an identifier.                                   *)

\* an identifier that contains ENC1, and one that is ENC1 in lower case
ENC12 == <<"E", "N", "C", "1", "2">>

enc1 == <<"e", "n", "c", "1">>

RemoveIds == {ENC1, ENC2, ENC12, enc1}

\* a plain task, and a task that quotes the tag of ENC2
RemoveTasks == {<<"harvest">>, <<"as", " ", "in", " ", "[EXPERIMENT_ID:", "E", "N", "C", "2", "]">>}

RemoveUnits == [id : RemoveIds, task : RemoveTasks]

\* the native calendar after add_to_calendar of one Day 5 entry for each unit
RECURSIVE CalendarOfUnits(_, _)
CalendarOfUnits(units, n) ==
    IF n = 0 THEN NoCalendar
    ELSE macos_add(CalendarOfUnits(units, n - 1),
                   assign_dates(<<[day |-> 5, task |-> units[n].task]>>, Midnight(StartClock),
                                units[n].id),
                   units[n].id, "last", NoFault, 1).cal

InitRemove ==
    /\ trial \in [op : {"remove"}, units : SeqsUpTo(RemoveUnits, MaxUnits),
                  exp_id : {ENC1, ENC2}, done : {FALSE}, ret : {FALSE}]
    /\ platform = [system |-> "Darwin", eventkit |-> TRUE]
    /\ now = StartClock
    /\ calendar_backend = "macos"
    /\ calendar = CalendarOfUnits(trial.units, Len(trial.units))
    /\ calendar_exports = <<>>
    /\ last = NoRequest
    /\ previous = NoRequest.form
    /\ requests = 0
    /\ infer = [events |-> <<>>, backend |-> "none", result |-> NoDate]

\* calendar_macos.remove_from_calendar(exp_id) with nothing failing
RemoveMacos ==
    /\ trial.op = "remove" /\ ~trial.done
    /\ calendar' = macos_remove(calendar, trial.exp_id, now, NoFault, 1).cal
    /\ trial' = [trial EXCEPT !.done = TRUE,
                              !.ret = macos_remove(calendar, trial.exp_id, now, NoFault, 1).ret]
    /\ UNCHANGED <<platform, now, calendar_backend, calendar_exports, last, previous,
                   requests, infer>>

NextRemove == RemoveMacos

SpecRemove == InitRemove /\ [][NextRemove]_vars

----------------------------------------------------------------------------
(* The export file taken alone: generate_ics_file for every sequence of up   *)
(* to MaxEntries entries over TaskTexts, then read_ics_file on the file.     *)

\* task texts: plain, and with each character generate_ics_file escapes, with
\* the words "Day 7", and with an identifier tag
TaskTexts ==
    {<<"harvest">>,
     <<"wash", ",", " ", "dry">>,
     <<"wash", ";", " ", "dry">>,
     <<"a", "\\", "b">>,
     <<"wash", "\n", "dry">>,
     <<"fix", " ", "until", " ", "Day", " ", "7">>,
     <<"as", " ", "in", " ", "[EXPERIMENT_ID:", "E", "N", "C", "2", "]">>}

RoundTripEntries == [day : {0, 5}, task : TaskTexts]

InitRoundTrip ==
    /\ trial \in [op : {"roundtrip"}, entries : SeqsUpTo(RoundTripEntries, MaxEntries),
                  exp_id : {ENC1, ENC2}, day0_date : {Midnight(StartClock), StartClock},
                  step : {"start"}, result : {<<>>}]
    /\ platform = [system |-> "Linux", eventkit |-> FALSE]
    /\ now = StartClock
    /\ calendar_backend = "none"
    /\ calendar = NoCalendar
    /\ calendar_exports = <<>>
    /\ last = NoRequest
    /\ previous = NoRequest.form
    /\ requests = 0
    /\ infer = [events |-> <<>>, backend |-> "none", result |-> NoDate]

\* generate_ics_file(dated_entries, exp_id)
WriteIcs ==
    /\ trial.op = "roundtrip" /\ trial.step = "start"
    /\ calendar_exports' =
           generate_ics_file(calendar_exports,
                             assign_dates(trial.entries, trial.day0_date, trial.exp_id),
                             trial.exp_id, now, "last", FALSE).dir
    /\ trial' = [trial EXCEPT !.step = "written"]
    /\ UNCHANGED <<platform, now, calendar_backend, calendar, last, previous, requests, infer>>

\* read_ics_file on the file written
ReadIcs ==
    /\ trial.op = "roundtrip" /\ trial.step = "written"
    /\ trial' = [trial EXCEPT !.step = "read",
                              !.result = read_ics_file(calendar_exports[1].content)]
    /\ UNCHANGED <<server_vars, infer>>

NextRoundTrip == WriteIcs \/ ReadIcs

SpecRoundTrip == InitRoundTrip /\ [][NextRoundTrip]_vars

----------------------------------------------------------------------------
(* The day-entry extractor taken alone: every text of up to MaxSentences     *)
(* sentences of Sentences, a space between them.  A sentence comes with the  *)
(* entries a reader takes from it.                                           *)

Sentence(text, entries) == [text |-> text, entries |-> entries]

Sentences ==
    {\* "Day 5: harvest."
     Sentence(<<"Day", " ", "5", ":", " ", "harvest", ".">>,
              <<[day |-> 5, task |-> <<"harvest">>]>>),
     \* "Day 5-6: wash."
     Sentence(<<"Day", " ", "5", "-", "6", ":", " ", "wash", ".">>,
              <<[day |-> 5, task |-> <<"wash">>]>>),
     \* "Day 2: seed."
     Sentence(<<"Day", " ", "2", ":", " ", "seed", ".">>,
              <<[day |-> 2, task |-> <<"seed">>]>>),
     \* "day12:\n feed  cells."
     Sentence(<<"day", "1", "2", ":", "\n", " ", "feed", " ", " ", "cells", ".">>,
              <<[day |-> 12, task |-> <<"feed", " ", "cells">>]>>),
     \* "Day 3: ."
     Sentence(<<"Day", " ", "3", ":", " ", ".">>, <<>>),
     \* "Mix well."
     Sentence(<<"Mix", " ", "well", ".">>, <<>>),
     \* "Day 7: wait" without its period: the text runs on into the next sentence
     Sentence(<<"Day", " ", "7", ":", " ", "wait">>, <<>>)}

\* every sentence ends with its period
WellFormed(sentences) ==
    \A i \in 1..Len(sentences) : sentences[i].text[Len(sentences[i].text)] = "."

\* the text of the sentences
RECURSIVE TextOf(_)
TextOf(sentences) ==
    IF Len(sentences) = 0 THEN <<>>
    ELSE IF Len(sentences) = 1 THEN sentences[1].text
    ELSE sentences[1].text \o <<" ">> \o TextOf(Tail(sentences))

\* the entries of the sentences, in the order of the text
RECURSIVE EntriesOf(_)
EntriesOf(sentences) ==
    IF Len(sentences) = 0 THEN <<>>
    ELSE sentences[1].entries \o EntriesOf(Tail(sentences))

InitParse ==
    /\ trial \in [op : {"parse"}, sentences : SeqsUpTo(Sentences, MaxSentences),
                  done : {FALSE}, result : {<<>>},
                  day0_date : {Midnight(StartClock), PlusDays(StartClock, 20)},
                  exp_id : {ENC1, ENC2}, assigned : {FALSE}, dated_entries : {<<>>}]
    /\ platform = [system |-> "Linux", eventkit |-> FALSE]
    /\ now = StartClock
    /\ calendar_backend = "none"
    /\ calendar = NoCalendar
    /\ calendar_exports = <<>>
    /\ last = NoRequest
    /\ previous = NoRequest.form
    /\ requests = 0
    /\ infer = [events |-> <<>>, backend |-> "none", result |-> NoDate]

\* parse_day_entries(text)
ParseDayEntries ==
    /\ trial.op = "parse" /\ ~trial.done
    /\ trial' = [trial EXCEPT !.done = TRUE,
                              !.result = parse_day_entries(TextOf(trial.sentences))]
    /\ UNCHANGED <<server_vars, infer>>

\* assign_dates(entries, day0_date, exp_id) on the entries parsed
AssignDates ==
    /\ trial.op = "parse" /\ trial.done /\ ~trial.assigned
    /\ trial' = [trial EXCEPT !.assigned = TRUE,
                              !.dated_entries = assign_dates(trial.result, trial.day0_date,
                                                             trial.exp_id)]
    /\ UNCHANGED <<server_vars, infer>>

NextParse == ParseDayEntries \/ AssignDates

SpecParse == InitParse /\ [][NextParse]_vars

----------------------------------------------------------------------------
(* Claims about the requests (checked under Spec).  A state with             *)
(* last # NoRequest is the state a handler run leaves: the store as the run  *)
(* left it, and in last the form, the result and the locals of the run.      *)

\* the world of the current state, and an environment in which nothing fails
World == [backend |-> calendar_backend, calendar |-> calendar, dir |-> calendar_exports]

Quiet == [platform |-> platform, clock |-> now, place |-> "last", fault |-> NoFault]

\* the events find returns under identifier X, as the backend holds them
FoundEvents(w, env, X) ==
    LET found == find_matching_experiment_ids(w, X, env).ret
    IN IF HasKey(found, X) THEN found[KeyIndex(found, X)].events ELSE <<>>

\* one event as {day, date}: an event read from an export file is that pair, a
\* native event carries the day in its title and the date as its start
DayAndDate(event) ==
    IF "title" \in DOMAIN event
    THEN [day |-> day_pattern_search(event.title), date |-> event.start]
    ELSE event

\* a query for X: the events {day, date} stored under X
Query(w, env, X) ==
    LET events == FoundEvents(w, env, X)
    IN [i \in 1..Len(events) |-> DayAndDate(events[i])]

\* the Day 0 inferred from what a query for X returns; NoDate when it returns nothing
Day0Of(w, env, X) ==
    IF FoundEvents(w, env, X) = <<>> THEN NoDate
    ELSE extract_day0_from_events(w, FoundEvents(w, env, X), env)

\* a sequence as a multiset
BagOf(seq) ==
    [x \in {seq[i] : i \in 1..Len(seq)} |-> Cardinality({i \in 1..Len(seq) : seq[i] = x})]

\* the run in last was an Update that reached the per-identifier phase
ReachedLoop == last.form.action = "update" /\ \E i \in 1..Len(last.calls) : last.calls[i].op = "remove"

\* the report of the run in last: the lines of message and error
Report == last.result.message \o last.result.error

\* the report says identifier X was updated
ReportsUpdated(X) == \E i \in 1..Len(Report) : Report[i].kind = "Updated" /\ Report[i].id = X

\* the events an Update owes identifier X: one per entry, dated Day 0 + day
Owed(entries, day0_date) ==
    [i \in 1..Len(entries) |->
        [day |-> entries[i].day, date |-> PlusDays(day0_date, entries[i].day)]]

\* C1: after an Update that reports success for a matched identifier X, a query
\* for X returns exactly one event per entry of the parsed document, dated
\* (Day 0 inferred before the update) + day, and none of the events stored for
\* X before the update
C1_UpdateReplacesEvents ==
    (last.form.action = "update" /\ last.result.success) =>
        \A i \in 1..Len(last.matching_ids) :
            ReportsUpdated(last.matching_ids[i].id) =>
                BagOf(Query(World, Quiet, last.matching_ids[i].id))
                    = BagOf(Owed(last.entries, last.matching_ids[i].day0_date))

\* the Day 0 inference of the run in last found no Day 0 for some identifier
Day0Absent(calls) ==
    \E i \in 1..Len(calls) : calls[i].op = "extract_day0" /\ ~calls[i].ok

C3_FailureDoesNotStopTheLoop ==
    ReachedLoop =>
        \A i \in 1..Len(last.matching_ids) :
            \A op \in {"remove", "add"} :
                \E c \in 1..Len(last.calls) :
                    last.calls[c].op = op /\ last.calls[c].id = last.matching_ids[i].id

\* C4: the report of an Update that reached the per-identifier phase names
\* every matched identifier with its outcome, updated or failed, whatever the
\* mix of outcomes
C4_ReportNamesEveryIdentifier ==
    ReachedLoop =>
        \A i \in 1..Len(last.matching_ids) :
            \E r \in 1..Len(Report) :
                /\ Report[r].id = last.matching_ids[i].id
                /\ Report[r].kind \in {"Updated", "Failed to update"}

\* C5: every request to /api/process, on every path, ends with a response sent
\* that carries the success flag and a non-empty message or error
C5_EveryRequestIsAnswered ==
    last # NoRequest =>
        /\ last.sent
        /\ last.result.success \in BOOLEAN
        /\ last.result.message # <<>> \/ last.result.error # <<>>

\* C6: an Update run again right after it succeeded, with the same partial
\* identifier and the same document and nothing failing in the environment,
\* leaves for every matched identifier the multiset of queryable events the
\* first run left
C6_UpdateTwiceIsUpdateOnce ==
    [][(/\ last = NoRequest
        /\ previous.action = "update"
        /\ last'.form = previous
        /\ last'.fault = NoFault
        /\ last'.result.success) =>
          \A i \in 1..Len(last'.matching_ids) :
              BagOf(Query(World', Quiet', last'.matching_ids[i].id))
                  = BagOf(Query(World, Quiet, last'.matching_ids[i].id))]_vars

\* C7: after a successful Update, the Day 0 inferred from the events queryable
\* for a matched identifier X equals the Day 0 inferred for X before the Update
C7_UpdatePreservesDay0 ==
    (last.form.action = "update" /\ last.result.success) =>
        \A i \in 1..Len(last.matching_ids) :
            ReportsUpdated(last.matching_ids[i].id) =>
                Day0Of(World, Quiet, last.matching_ids[i].id) = last.matching_ids[i].day0_date

\* the adds of the run in last that returned True
AddsDone(calls) == Cardinality({c \in 1..Len(calls) : calls[c].op = "add" /\ calls[c].ok})

\* C14: on the portable backend every add writes an export file that did not
\* exist before the call and leaves the files written before as they were, also
\* when two adds for one identifier fall in the same second
C14_AddWritesNewFile ==
    [][(last = NoRequest /\ last' # NoRequest /\ calendar_backend' = "ics") =>
          /\ Len(calendar_exports') = Len(calendar_exports) + AddsDone(last'.calls)
          /\ \A i \in 1..Len(calendar_exports) :
                 \E j \in 1..Len(calendar_exports') : calendar_exports'[j] = calendar_exports[i]]_vars

StoredByAdd(event, X) ==
    /\ IsSubstring(<<"[EXPERIMENT_ID:">> \o X \o <<"]">>, event.notes)
    /\ IsSubstring(<<"ID:", " ">> \o X \o <<",">>, event.title)

\* C17: on the native backend, after remove(X) has returned with nothing
\* failing in the event store, no event that add stored for X is left in the
\* calendar, whatever its day index and date
C17_RemoveLeavesNoEvent ==
    (/\ last.form.action = "remove" /\ last.form.expId # <<>>
     /\ calendar_backend = "macos"
     /\ last.fault = NoFault) =>
        \A i \in 1..Len(calendar.events) : ~StoredByAdd(calendar.events[i], last.form.expId)

\* C19: when the add of a Create saves only some of the events requested, the
\* events saved are in the calendar with those already there, and the response
\* states the number of events that were saved
C19_ReportCountsSavedEvents ==
    [][(/\ last = NoRequest
        /\ last'.form.action = "add"
        /\ calendar_backend' = "macos"
        /\ last'.result.success) =>
          /\ \A i \in 1..Len(calendar.events) :
                 \E j \in 1..Len(calendar'.events) : calendar'.events[j] = calendar.events[i]
          /\ \E r \in 1..Len(last'.result.message) :
                 /\ last'.result.message[r].kind = "Added events to Apple Calendar"
                 /\ last'.result.message[r].count
                        = Len(calendar'.events) - Len(calendar.events)]_vars

\* the calls of one operation among the backend calls of a run, in order
CallsOf(calls, op) == SelectSeq(calls, LAMBDA c : c.op = op)

\* C18: a native add, remove or find for which calendar access was not granted
\* before the wait ended returns failure without reading or changing the event
\* store
C18_NoAccessNoStoreUse ==
    [][(/\ last = NoRequest /\ last' # NoRequest
        /\ calendar_backend' = "macos"
        /\ last'.fault.call \in {"add", "remove", "find"}
        /\ Len(CallsOf(last'.calls, last'.fault.call)) >= last'.fault.n
        /\ ~AccessGranted(last'.fault, last'.fault.call, last'.fault.n)) =>
          /\ ~CallsOf(last'.calls, last'.fault.call)[last'.fault.n].ok
          /\ ~macos_reads_store(last'.fault, last'.fault.call, last'.fault.n)
          /\ (Len(last'.calls) = 1 => calendar' = calendar)]_vars

----------------------------------------------------------------------------
(* Claims about Day-0 inference (checked under SpecDay0) *)

\* every event of the sequence is dated D + day
ConsistentWith(events, D) ==
    \A i \in 1..Len(events) : events[i].date = PlusDays(D, events[i].day)

\* the positions of the Day 0 events
Day0Positions(events) == {i \in 1..Len(events) : events[i].day = 0}

\* the first position holding the minimum day number
FirstMinPosition(events) ==
    CHOOSE i \in 1..Len(events) :
        /\ \A j \in 1..Len(events) : events[i].day <= events[j].day
        /\ \A j \in 1..(i - 1) : events[j].day > events[i].day

\* C8: for a non-empty sequence of events that are all dated D + day, Day-0
\* inference (either backend) returns D at midnight, whatever the order of the
\* events and whether or not a Day 0 event is among them.
C8_ConsistentEventsGiveReference ==
    (infer.backend # "none" /\ Len(infer.events) > 0) =>
        LET D == MinusDays(infer.events[1].date, infer.events[1].day)
        IN ConsistentWith(infer.events, D) => infer.result = Midnight(D)

\* C8 witness: inference has run on two consistent events, out of day order,
\* none of them Day 0, dated at 09:30, and returned the reference date.
C8_Witness ==
    /\ infer.backend # "none"
    /\ Len(infer.events) = 2
    /\ infer.events[1].day = 3 /\ infer.events[2].day = 2
    /\ infer.events[1].date.sec # 0
    /\ ConsistentWith(infer.events, MinusDays(infer.events[1].date, 3))
    /\ infer.result = Midnight(MinusDays(infer.events[1].date, 3))

\* C9: when the sequence holds a Day 0 event, the result is the date of the
\* first such event in sequence order, at midnight, whatever the other events.
C9_FirstDay0Wins ==
    (infer.backend # "none" /\ Day0Positions(infer.events) # {}) =>
        LET first == CHOOSE i \in Day0Positions(infer.events) :
                         \A j \in Day0Positions(infer.events) : i <= j
        IN infer.result = Midnight(infer.events[first].date)

\* C9 witness: inference has run on a sequence whose first event is not Day 0
\* and is inconsistent with the Day 0 event that follows, itself followed by a
\* Day 0 duplicate of another date.
C9_Witness ==
    /\ infer.backend # "none"
    /\ Len(infer.events) = 3
    /\ infer.events[1].day = 2
    /\ infer.events[2].day = 0 /\ infer.events[3].day = 0
    /\ infer.events[2].date.day # infer.events[3].date.day
    /\ infer.events[1].date # PlusDays(infer.events[2].date, 2)
    /\ infer.events[2].date.sec # 0
    /\ infer.result = Midnight(infer.events[2].date)

\* C10: a non-empty sequence without a Day 0 event gives (date of the first
\* event holding the minimum day number) minus that day number, at midnight;
\* the empty sequence gives absent.
C10_MinDayFallback ==
    infer.backend # "none" =>
        /\ Len(infer.events) = 0 => infer.result = NoDate
        /\ (Len(infer.events) > 0 /\ Day0Positions(infer.events) = {}) =>
               LET m == FirstMinPosition(infer.events)
               IN infer.result =
                      Midnight(MinusDays(infer.events[m].date, infer.events[m].day))

\* C10 witness: inference has run on a sequence without Day 0 in which two
\* events of different dates tie on the minimum day number, after a later day.
C10_Witness ==
    /\ infer.backend # "none"
    /\ Len(infer.events) = 3
    /\ infer.events[1].day = 3
    /\ infer.events[2].day = 2 /\ infer.events[3].day = 2
    /\ infer.events[2].date.day # infer.events[3].date.day
    /\ infer.result = Midnight(MinusDays(infer.events[2].date, 2))

----------------------------------------------------------------------------
(* Claims about find (checked under SpecFind) *)

\* the identifiers the units of the store were added under
StoredIds == {trial.units[i].id : i \in 1..Len(trial.units)}

\* the keys of the mapping find returned
FoundIds == {trial.result[k].id : k \in 1..Len(trial.result)}

\* C11: find with query "enc" over a store holding the identifiers "ENC1",
\* "enc-2" and "science" returns groups for "ENC1" and "enc-2" and none for
\* "science"
C11_EncDoesNotMatchScience ==
    (/\ trial.op = "find" /\ trial.backend # "none"
     /\ trial.partial_id = enc
     /\ StoredIds = {ENC1, EncDash2, Science}
     /\ \A i \in 1..Len(trial.units) : trial.units[i].shape = "near") =>
        /\ ENC1 \in FoundIds
        /\ EncDash2 \in FoundIds
        /\ Science \notin FoundIds

\* C12: the keys find returns are exactly the stored identifiers s with
\* lower(p) a substring of lower(s); an identifier that is only a substring of
\* p is not returned, and nothing matching gives the empty mapping
C12_FindIsSubstringMatch ==
    (trial.op = "find" /\ trial.backend # "none") =>
        FoundIds = {s \in StoredIds : IsSubstring(lower(trial.partial_id), lower(s))}

\* the events read_ics_file parses from one export file for identifier X
FileEvents(file, X) ==
    IF HasKey(read_ics_file(file.content), X)
    THEN read_ics_file(file.content)[KeyIndex(read_ics_file(file.content), X)].events
    ELSE <<>>

\* the events of X file by file, in the order of the directory listing
RECURSIVE EventsInScanOrder(_, _)
EventsInScanOrder(dir, X) ==
    IF Len(dir) = 0 THEN <<>>
    ELSE FileEvents(dir[1], X) \o EventsInScanOrder(Tail(dir), X)

\* C13: for an identifier that occurs in several export files, find returns one
\* group, and its events are the events parsed from each file, concatenated in
\* file scan order with nothing dropped or deduplicated
C13_GroupsAreConcatenated ==
    (trial.op = "find" /\ trial.backend = "ics") =>
        /\ Cardinality(FoundIds) = Len(trial.result)
        /\ \A k \in 1..Len(trial.result) :
               trial.result[k].events = EventsInScanOrder(calendar_exports, trial.result[k].id)

\* find has run on a directory with two files for ENC1 that hold different
\* events, and a file of another identifier
C13_Witness ==
    /\ trial.op = "find" /\ trial.backend = "ics"
    /\ Len(calendar_exports) = 3
    /\ \E k \in 1..Len(trial.result) :
           /\ trial.result[k].id = ENC1
           /\ Len(trial.result[k].events) = 3
           /\ FileEvents(calendar_exports[1], ENC1) # <<>>
           /\ FileEvents(calendar_exports[3], ENC1) # <<>>
           /\ FileEvents(calendar_exports[1], ENC1) # FileEvents(calendar_exports[3], ENC1)

----------------------------------------------------------------------------
(* Claims about the export file (checked under SpecRoundTrip) *)

\* the events {day, date} of the entries written, dates as calendar dates
EventsWritten ==
    [i \in 1..Len(trial.entries) |->
        [day |-> trial.entries[i].day,
         date |-> Midnight(PlusDays(trial.day0_date, trial.entries[i].day))]]

\* C16: reading back the file the portable add wrote gives, in order, one event
\* per entry with the entry's day, calendar date and experiment identifier,
\* whatever the task text holds
C16_ExportRoundTrip ==
    (trial.op = "roundtrip" /\ trial.step = "read" /\ trial.entries # <<>>) =>
        /\ Len(trial.result) = 1
        /\ trial.result[1].id = trial.exp_id
        /\ trial.result[1].events = EventsWritten

----------------------------------------------------------------------------
(* Claims about the day-entry extractor (checked under SpecParse) *)

\* the entries of day d in a sequence of entries, in its order
OfDay(entries, d) == SelectSeq(entries, LAMBDA e : e.day = d)

\* C20: the output of the day-entry extractor is ascending in the day index,
\* for every text; the entries of one day index are all kept, in the order of
\* their places in the text, each with the first number of its marker as day
\* index
C20_SortedAndStable ==
    (trial.op = "parse" /\ trial.done) =>
        /\ \A i \in 1..(Len(trial.result) - 1) : trial.result[i].day <= trial.result[i + 1].day
        /\ \A i \in 1..Len(trial.result) :
               OfDay(trial.result, trial.result[i].day)
                   = OfDay(day_entry_matches(TextOf(trial.sentences), 1), trial.result[i].day)
        /\ WellFormed(trial.sentences) =>
               /\ Len(trial.result) = Len(EntriesOf(trial.sentences))
               /\ \A i \in 1..Len(trial.result) :
                      OfDay(trial.result, trial.result[i].day)
                          = OfDay(EntriesOf(trial.sentences), trial.result[i].day)

\* the extractor has run on a text with "Day 5-6:" before "Day 5:" and, after
\* them, the marker of an earlier day
C20_Witness ==
    /\ trial.op = "parse" /\ trial.done
    /\ Len(trial.result) = 3
    /\ trial.result[1].day = 2
    /\ trial.result[2] = [day |-> 5, task |-> <<"wash">>]
    /\ trial.result[3] = [day |-> 5, task |-> <<"harvest">>]
    /\ trial.sentences[3].entries = <<trial.result[1]>>

\* C21: assign_dates returns a sequence of the length and order of the entries
\* in which element i has the day and the task of entry i, the date
\* day0_date + day days and the identifier given
C21_AssignKeepsEntries ==
    (trial.op = "parse" /\ trial.assigned) =>
        /\ Len(trial.dated_entries) = Len(trial.result)
        /\ \A i \in 1..Len(trial.result) :
               /\ trial.dated_entries[i].day_num = trial.result[i].day
               /\ trial.dated_entries[i].task = trial.result[i].task
               /\ trial.dated_entries[i].calendar_date.day
                      = trial.day0_date.day + trial.result[i].day
               /\ trial.dated_entries[i].calendar_date.sec = trial.day0_date.sec
               /\ trial.dated_entries[i].exp_id = trial.exp_id

\* assign_dates has run on three entries of two different days, with a
\* reference date that carries a time of day
C21_Witness ==
    /\ trial.op = "parse" /\ trial.assigned
    /\ Len(trial.dated_entries) = 3
    /\ trial.result[1].day < trial.result[3].day
    /\ trial.day0_date.sec > 0
    /\ trial.exp_id = ENC2

----------------------------------------------------------------------------
(* Claims about the backend selection (checked under SpecBackend) *)

\* C22: once a call has selected a backend, the selection never changes and
\* every later call of add, remove, find, extract_day0 and get_backend_type
\* runs on that backend, whatever the calls and whatever becomes of the host
C22_BackendSelectedOnce ==
    [][calendar_backend # "none" =>
          /\ calendar_backend' = calendar_backend
          /\ trial'.calls > trial.calls => trial'.used = calendar_backend]_vars

\* a backend was selected, then EventKit became importable or stopped being
\* so, and a call was made after that
C22_Witness ==
    /\ trial.op = "backend" /\ trial.calls = MaxCalls
    /\ calendar_backend # "none"
    /\ calendar_backend # init_backend("none", platform)
    /\ trial.used = calendar_backend

----------------------------------------------------------------------------
(* Claims about the order of an Update (checked under Spec) *)

Reversed(seq) == [i \in 1..Len(seq) |-> seq[Len(seq) + 1 - i]]

\* the same stored events, enumerated by the backend in the opposite order:
\* Path.glob lists the files, eventsMatchingPredicate the events, backwards
EnumeratedBackwards(w) ==
    [w EXCEPT !.dir = Reversed(@), !.calendar.events = Reversed(@)]

\* the identifiers of the backend removes in calls, in the order of the calls
RemovedIds(calls) == [i \in 1..Len(CallsOf(calls, "remove")) |-> CallsOf(calls, "remove")[i].id]

\* C23: an Update processes the matched identifiers in an order, and gives a
\* report, that depend on the stored events and the query alone: the run over
\* the same store enumerated in the opposite order processes the identifiers
\* in the same order and gives the same report
C23_OrderIgnoresEnumeration ==
    [][(/\ last = NoRequest
        /\ last'.form.action = "update"
        /\ last'.fault = NoFault
        /\ RemovedIds(last'.calls) # <<>>) =>
          /\ RemovedIds(post_update(EnumeratedBackwards(World), last'.form.expId,
                                    last'.form.file,
                                    [platform |-> platform, clock |-> now,
                                     place |-> last'.place, fault |-> NoFault]).calls)
                = RemovedIds(last'.calls)
          /\ post_update(EnumeratedBackwards(World), last'.form.expId, last'.form.file,
                         [platform |-> platform, clock |-> now,
                          place |-> last'.place, fault |-> NoFault]).result
                = last'.result]_vars

----------------------------------------------------------------------------
(* Claims about an upload without day entries (checked under Spec) *)

\* the request in last got as far as the day-entry extractor, which returned
\* an empty sequence for the upload
NoEntriesFound ==
    /\ last.form.action \in {"update", "add", "parse"}
    /\ last.form.expId # <<>>
    /\ last.form.file # NoFile /\ SupportedSuffix(last.form.file) /\ last.form.file.readable
    /\ parse_day_entries(last.form.file.text) = <<>>
    /\ last.form.action = "update" => last.matching_ids # <<>> /\ ~Day0Absent(last.calls)

\* C24: when the day-entry extractor returns an empty sequence for the upload,
\* Create makes no backend add and Update no backend remove and no backend
\* add, no exception is raised, and the client is sent a result whose error is
\* 'No Day entries found in the document'
C24_NoEntriesIsReported ==
    NoEntriesFound =>
        /\ \A i \in 1..Len(last.calls) :
               last.calls[i].op \notin {"remove", "add"} /\ ~last.calls[i].raised
        /\ last.result = ErrorResult("No Day entries found in the document", <<>>)
        /\ last.sent

----------------------------------------------------------------------------
(* Claims about the two inferencers (checked under SpecEquiv) *)

\* C25: for stored events that carry the same (day, date) pairs in the same
\* order, the native and the portable Day-0 inferencers return the same
\* result, also when the native store holds among them an event without a
\* title, without a "Day N" marker or without a start date
C25_InferencersAgree ==
    (trial.op = "equiv" /\ trial.done = {"ics", "macos"}) =>
        trial.native_result = trial.portable_result

\* both inferencers have run on a store whose first native event reads Day 0
\* and has no start date, ahead of two events with a pair, and found a Day 0
C25_Witness ==
    /\ trial.op = "equiv" /\ trial.done = {"ics", "macos"}
    /\ Len(trial.events) = 2 /\ Len(trial.native) = 3
    /\ trial.native[1].start = NoDate
    /\ day_pattern_search(trial.native[1].title) = 0
    /\ trial.native_result # NoDate
    /\ trial.events[1].date.sec > 0

----------------------------------------------------------------------------
(* Claims about the native remove (checked under Spec) *)

\* event is one of events
Among(event, events) == \E i \in 1..Len(events) : events[i] = event

\* C26: on the native backend every event that find groups under identifier X,
\* by its notes tag or failing that by its title, is selected for deletion by
\* remove(X), and is gone from the calendar once remove(X) has succeeded with
\* nothing failing in the event store
C26_RemoveSelectsWhatFindGroups ==
    [][(/\ last = NoRequest
        /\ last'.form.action = "remove" /\ last'.form.expId # <<>>
        /\ calendar_backend' = "macos"
        /\ last'.fault = NoFault) =>
          \A i \in 1..Len(FoundEvents(World, Quiet, last'.form.expId)) :
              /\ macos_remove_selects(FoundEvents(World, Quiet, last'.form.expId)[i],
                                      last'.form.expId)
              /\ last'.result.success =>
                     ~Among(FoundEvents(World, Quiet, last'.form.expId)[i], calendar'.events)]_vars

----------------------------------------------------------------------------
(* Claims about the native remove taken alone (checked under SpecRemove).    *)
(* The i-th event of the calendar is the event stored for trial.units[i].id. *)

\* C27: on the native backend remove(X) deletes only events stored for X:
\* every event stored for an identifier Y other than X is still in the
\* calendar after remove(X), also when Y contains X, when Y is X in another
\* letter case and when the task of the event quotes the tag of X
C27_RemoveKeepsOtherIdentifiers ==
    [][(trial.op = "remove" /\ ~trial.done /\ trial'.done) =>
          \A i \in 1..Len(trial.units) :
              trial.units[i].id # trial.exp_id => Among(calendar.events[i], calendar'.events)]_vars

----------------------------------------------------------------------------
(* Claims about what an Update leaves alone (checked under Spec) *)

\* C28: an Update with partial identifier p changes the stored events of the
\* identifiers matched by p only: for every identifier with stored events
\* whose lower-cased form does not contain lower(p), a query returns the same
\* events before and after the Update, on either backend and whatever the
\* outcomes for the matched identifiers
C28_UpdateKeepsUnmatched ==
    [][(/\ last = NoRequest
        /\ last'.form.action = "update" /\ last'.form.expId # <<>>) =>
          \A Y \in {ENC1, ENC2} :
              (/\ Query(World, Quiet, Y) # <<>>
               /\ ~IsSubstring(lower(last'.form.expId), lower(Y))) =>
                  Query(World', Quiet', Y) = Query(World, Quiet, Y)]_vars

----------------------------------------------------------------------------
(* Claims about the order of the backend calls of an Update (checked under   *)
(* Spec); last.calls holds the calls of the run in the order they were made  *)

\* the positions in calls of the calls of op for identifier X
CallPositions(calls, op, X) == {c \in 1..Len(calls) : calls[c].op = op /\ calls[c].id = X}

\* C29: in an Update that reached the per-identifier phase, the find and every
\* Day 0 inference come before the first backend remove, and for each matched
\* identifier the remove is called exactly once and before that identifier's
\* add, which is called exactly once whatever the remove returned
C29_CallsInOrder ==
    ReachedLoop =>
        /\ \A c, d \in 1..Len(last.calls) :
               (last.calls[c].op \in {"find", "extract_day0"} /\ last.calls[d].op = "remove")
                   => c < d
        /\ \A i \in 1..Len(last.matching_ids) :
               /\ Cardinality(CallPositions(last.calls, "extract_day0", last.matching_ids[i].id)) = 1
               /\ Cardinality(CallPositions(last.calls, "remove", last.matching_ids[i].id)) = 1
               /\ Cardinality(CallPositions(last.calls, "add", last.matching_ids[i].id)) = 1
               /\ \A c \in CallPositions(last.calls, "remove", last.matching_ids[i].id) :
                      \A d \in CallPositions(last.calls, "add", last.matching_ids[i].id) : c < d

----------------------------------------------------------------------------
(* Claims about the groups of the portable-file backend (checked under Spec) *)

\* C30: on the portable-file backend every group that the find of an Update
\* returned holds at least one event, each of its events has a day index and
\* a date, the Day 0 inferred from the group is never absent, and the Update
\* does not end on a failed Day 0 inference
C30_IcsGroupsGiveDay0 ==
    (calendar_backend = "ics" /\ last.form.action = "update") =>
        /\ ~Day0Absent(last.calls)
        /\ \A i \in 1..Len(last.matching_ids) :
               /\ last.matching_ids[i].events # <<>>
               /\ \A k \in 1..Len(last.matching_ids[i].events) :
                      /\ last.matching_ids[i].events[k].day \in Nat
                      /\ last.matching_ids[i].events[k].date # NoDate
               /\ extract_day0_from_ics_events(last.matching_ids[i].events) # NoDate

\* an Update on the portable-file backend matched two identifiers, each with a
\* group that holds no event of day 0, and went on to the removes
C30_Witness ==
    /\ calendar_backend = "ics" /\ ReachedLoop
    /\ Len(last.matching_ids) = 2
    /\ \A i \in 1..2 :
           \A k \in 1..Len(last.matching_ids[i].events) : last.matching_ids[i].events[k].day # 0

====
